---- MODULE Spec2Model ----
(***************************************************************************)
(* Authentication / session-integrity core of the auth-service:            *)
(* the User document (Mongoose schema), the token service, and the         *)
(* request handlers of AuthController and PasswordController.              *)
(*                                                                         *)
(* Every handler is an async function.  Each `await` on the document store *)
(* is a point where other requests interleave, so a handler is modelled as *)
(* one action per store operation: the action performs the store operation *)
(* together with the synchronous code that follows it up to the next store *)
(* operation.  A loaded Mongoose document is a private in-memory copy      *)
(* (req[p].user); doc.save() writes back only the paths the handler        *)
(* assigned (req[p].dirty), doc.updateOne() applies an update operator to  *)
(* the stored record.                                                      *)
(*                                                                         *)
(* Time is counted in ticks of MsPerTick milliseconds (Date.now()).        *)
(***************************************************************************)
EXTENDS Integers, Sequences, FiniteSets, TLC

\* ------------------------------------------------------------------ bounds
NumWorkers == 2        \* requests served concurrently in the session runs
NumBurst == 7          \* parallel logins of a burst
MaxRequests == 2       \* requests started in a session run
MaxEpochRequests == 3  \* requests started in a run of racing epoch bumps
MaxSeqRequests == 8    \* requests started in a sequential run
MaxPasswordRequests == 6 \* requests started in a run of password checks
MaxOAuthRequests == 3    \* provider callbacks served in a run of OAuth logins
MaxRevocationRequests == 6 \* requests started in a run of racing revocations
MaxExternal == 2       \* external ids a provider hands out
MaxSuffix == 1         \* random suffixes generateUsername draws from
MaxTime == 4           \* last value of the clock
MaxUsers == 2          \* records the collection can hold
MaxRaw == 2            \* ephemeral tokens generated in one behaviour
AccessTTL == 2         \* config.auth.jwt.expiresIn, in ticks
RefreshTTL == 3        \* config.auth.refreshToken.expiresIn, in ticks
MaxRateRequests == 5   \* requests that reach the rate limiter in a run
RateWindow == 2        \* windowMs of the rate limiter, in ticks
RateMax == 2           \* max of the rate limiter

Max(a, b) == IF a >= b THEN a ELSE b

Workers == 1..NumWorkers
Procs == 1..Max(NumWorkers, NumBurst)
Ids == 1..MaxUsers

\* --------------------------------------------------------------- constants
MsPerTick == 10 * 60 * 1000
maxAttempts == 5
lockTime == (30 * 60 * 1000) \div MsPerTick
resetExpiry == (10 * 60 * 1000) \div MsPerTick
verificationExpiry == (24 * 60 * 60 * 1000) \div MsPerTick

Null == -1             \* null / undefined / field absent

Passwords == {"p1", "p2"}
Emails == {"e1", "e2"}
RawTokens == 1..MaxRaw \* crypto.randomBytes(32).toString('hex') values

\* ------------------------------------------------------------------ bcrypt
\* A passwordHash value: absent, a raw string as the handler assigned it, or
\* a bcrypt digest (a string starting with '$2').
NoHash == [kind |-> "none", of |-> ""]

rawPassword(pw) == [kind |-> "raw", of |-> pw]

\* bcrypt.hash: a digest, distinguishable from every raw password.
bcryptHash(pw) == [kind |-> "bcrypt", of |-> pw]

bcryptCompare(candidate, hash) == hash = bcryptHash(candidate)

\* ------------------------------------------------------------- User schema
\* A stored record / a hydrated document.  A field removed by $unset reads
\* back as its schema default (loginAttempts 0, lockUntil null).
NoUser == [exists |-> FALSE]

NewUser(id, username, email, passwordHash) ==
  [ exists |-> TRUE,
    id |-> id,
    username |-> username,
    email |-> email,
    passwordHash |-> passwordHash,
    oauthProvider |-> "local",
    oauthId |-> Null,
    isActive |-> TRUE,
    isVerified |-> FALSE,
    loginAttempts |-> 0,
    lockUntil |-> Null,
    lastLogin |-> Null,
    tokenVersion |-> 0,
    emailVerificationToken |-> Null,
    emailVerificationExpires |-> Null,
    passwordResetToken |-> Null,
    passwordResetExpires |-> Null ]

\* Variant: the account still reads as locked at the instant lockUntil.
isLocked_Inclusive(u, t) == u.lockUntil # Null /\ u.lockUntil >= t

\* Variant: no account ever reads as locked.
isLocked_Never(u, t) == FALSE

\* UserSchema.virtual('isLocked')
isLocked(u, t) == u.lockUntil # Null /\ u.lockUntil > t

\* Variant: a document without a password hash passes the comparison.
comparePassword_AcceptsMissing(u, candidate) ==
  IF u.passwordHash = NoHash THEN TRUE
  ELSE bcryptCompare(candidate, u.passwordHash)

\* UserSchema.methods.comparePassword
comparePassword(u, candidate) ==
  IF u.passwordHash = NoHash THEN FALSE
  ELSE bcryptCompare(candidate, u.passwordHash)

\* An update document of updateOne on the lockout fields: $inc of
\* loginAttempts, the $unset fields, $set of lockUntil (Null: no $set).
Update(inc, unset, lockUntil) == [inc |-> inc, unset |-> unset, lockUntil |-> lockUntil]

\* Variant: the lock is decided one failure late (> instead of >=).
incrementLoginAttemptsUpdate_Late(this, t) ==
  IF this.lockUntil # Null /\ this.lockUntil < t
  THEN Update(0, {"loginAttempts", "lockUntil"}, Null)
  ELSE IF this.loginAttempts + 1 > maxAttempts /\ ~isLocked(this, t)
       THEN Update(1, {}, t + lockTime)
       ELSE Update(1, {}, Null)

\* UserSchema.methods.incrementLoginAttempts: `this` is the in-memory
\* document; the update it builds is applied by the store to the record.
incrementLoginAttemptsUpdate(this, t) ==
  IF this.lockUntil # Null /\ this.lockUntil < t
  THEN Update(0, {"loginAttempts", "lockUntil"}, Null)
  ELSE IF this.loginAttempts + 1 >= maxAttempts /\ ~isLocked(this, t)
       THEN Update(1, {}, t + lockTime)
       ELSE Update(1, {}, Null)

\* Variant: the reset clears the lock but leaves the counter.
resetLoginAttemptsUpdate_KeepsCount == Update(0, {"lockUntil"}, Null)

\* UserSchema.methods.resetLoginAttempts
resetLoginAttemptsUpdate == Update(0, {"loginAttempts", "lockUntil"}, Null)

\* Variant: the counter is written from the document's cached value instead
\* of being incremented in the store.
updateOne_Cached(this, rec, upd) ==
  [rec EXCEPT
     !.loginAttempts = IF "loginAttempts" \in upd.unset THEN 0 ELSE this.loginAttempts + upd.inc,
     !.lockUntil = IF "lockUntil" \in upd.unset THEN Null
                   ELSE IF upd.lockUntil # Null THEN upd.lockUntil ELSE @]

\* this.updateOne(update) as the store executes it on the stored record:
\* the operators act on the record, whatever the document `this` holds.
\* An unset field reads back as its schema default.
updateOne(this, rec, upd) ==
  [rec EXCEPT
     !.loginAttempts = IF "loginAttempts" \in upd.unset THEN 0 ELSE @ + upd.inc,
     !.lockUntil = IF "lockUntil" \in upd.unset THEN Null
                   ELSE IF upd.lockUntil # Null THEN upd.lockUntil ELSE @]

\* UserSchema.pre('save'): a modified passwordHash that is not yet a bcrypt
\* digest is hashed before the write.
preSave(doc, dirty) ==
  IF "passwordHash" \in dirty /\ doc.passwordHash.kind = "raw"
  THEN [doc EXCEPT !.passwordHash = bcryptHash(@.of)]
  ELSE doc

\* Variant: a save that leaves the stored ephemeral tokens in place.
saveDoc_KeepsTokens(rec, doc, dirty) ==
  LET d == preSave(doc, dirty)
      kept == {"passwordResetToken", "passwordResetExpires",
               "emailVerificationToken", "emailVerificationExpires"}
  IN [f \in DOMAIN rec |-> IF f \in dirty \ kept THEN d[f] ELSE rec[f]]

\* Variant: a save that persists nothing.
saveDoc_Dropped(rec, doc, dirty) == rec

\* doc.save() on a loaded document: $set of the modified paths only.
saveDoc(rec, doc, dirty) ==
  LET d == preSave(doc, dirty)
  IN [f \in DOMAIN rec |-> IF f \in dirty THEN d[f] ELSE rec[f]]

\* ----------------------------------------------------------- TokenService
\* A signed JWT: the secret it was signed with, its payload and its expiry.
NoToken == [secret |-> "none", userId |-> 0, tokenVersion |-> 0, exp |-> 0]

\* A string that is no JWT signed by this service.
GarbageToken == [secret |-> "garbage", userId |-> 0, tokenVersion |-> 0, exp |-> 0]

generateAccessToken(user, t) ==
  [secret |-> "jwt.secret", userId |-> user.id,
   tokenVersion |-> user.tokenVersion, exp |-> t + AccessTTL]

generateRefreshToken(user, t) ==
  [secret |-> "refreshToken.secret", userId |-> user.id,
   tokenVersion |-> user.tokenVersion, exp |-> t + RefreshTTL]

generateTokens(user, t) == {generateAccessToken(user, t), generateRefreshToken(user, t)}

\* Variant: a verification that accepts the signature of either secret.
jwtVerify_AnySecret(token, secret, t) ==
  token.secret \in {"jwt.secret", "refreshToken.secret"} /\ t < token.exp

\* jwt.verify(token, secret): the signature matches and the token is unexpired.
jwtVerify(token, secret, t) == token.secret = secret /\ t < token.exp

verifyAccessToken(token, t) == jwtVerify(token, "jwt.secret", t)

verifyRefreshToken(token, t) == jwtVerify(token, "refreshToken.secret", t)

\* ---------------------------------------------------------------- responses
NoResponse == [status |-> 0, code |-> "", message |-> "", tokens |-> {}]

\* res.success / res.created / res.json
Success(status, message, tokens) ==
  [status |-> status, code |-> "OK", message |-> message, tokens |-> tokens]

\* An AppError thrown in a handler, as globalErrorHandler sends it.
AuthenticationError(message) ==
  [status |-> 401, code |-> "AUTHENTICATION_ERROR", message |-> message, tokens |-> {}]

ValidationError(message) ==
  [status |-> 400, code |-> "VALIDATION_ERROR", message |-> message, tokens |-> {}]

ConflictError(message) ==
  [status |-> 409, code |-> "CONFLICT_ERROR", message |-> message, tokens |-> {}]

\* A thrown error that is not operational (a plain Error).
InternalError ==
  [status |-> 500, code |-> "INTERNAL_ERROR", message |-> "Internal server error", tokens |-> {}]

\* res.status(s).json({success: false, message}) of the handlers without
\* asyncHandler.
PlainError(status, message) ==
  [status |-> status, code |-> "", message |-> message, tokens |-> {}]

\* -------------------------------------------------------------------- state
VARIABLES
  users,     \* the users collection: Ids -> stored record
  now,       \* Date.now(), in ticks
  req,       \* Procs -> the request a slot is serving
  issued,    \* JWTs returned to clients so far
  started,   \* requests started so far
  minted,    \* ephemeral tokens generated so far
  last,      \* the request answered most recently, with its response
  streak,    \* failed password checks since the last one that passed
  bumps,     \* logout, change and reset requests answered with success
  uses,      \* RawTokens -> consumptions of the token answered with success
  linked,    \* Ids -> the (provider, external id) pairs linked to the record, in order
  env,       \* config.app.env of the process
  rejected,  \* refresh tokens Refresh has rejected for their epoch
  rate       \* the rate limiter: its Map of time stamps per key, and per key
             \* the time stamps of the requests it let pass

vars == <<users, now, req, issued, started, minted, last, streak, bumps, uses,
          linked, env, rejected, rate>>

\* The client keys (req.ip) of the rate limiter and its state before the
\* first request.
RateKeys == {"ip1", "ip2"}

NoRate == [requests |-> [k \in RateKeys |-> <<>>], passed |-> [k \in RateKeys |-> <<>>]]

NoInput == [email |-> "", username |-> "", password |-> "", newPassword |-> "",
            token |-> NoToken, raw |-> Null, provider |-> "", oauthId |-> Null]

Idle == [pc |-> "idle", op |-> "", user |-> NoUser, dirty |-> {}, in |-> NoInput,
         decoded |-> NoToken]

NoLast == [op |-> "", in |-> NoInput, res |-> NoResponse]

\* User.findOne(filter): the first record matching, 0 when there is none.
findOne(Match(_)) ==
  LET hits == {i \in Ids : users[i].exists /\ Match(users[i])}
  IN IF hits = {} THEN 0 ELSE CHOOSE i \in hits : \A j \in hits : i <= j

\* User.findById(id)
findById(id) == IF id \in Ids /\ users[id].exists THEN id ELSE 0

\* The handler of request r sends response res; its slot is free again.
Reply(p, r, res) ==
  /\ req' = [req EXCEPT ![p] = Idle]
  /\ last' = [op |-> r.op, in |-> r.in, res |-> res]

\* The handler of request r awaits its next store operation.
Await(p, r) ==
  /\ req' = [req EXCEPT ![p] = r]
  /\ last' = last

\* A request is taken by the lowest free slot.
CanStart(p) ==
  /\ req[p].pc = "idle"
  /\ \A q \in Procs : q < p => req[q].pc # "idle"

\* ------------------------------------------------------- AuthController.login
\* Variant: an identifier without an active user is answered differently.
login_RevealsUnknown(p, email, username, password) ==
  /\ CanStart(p)
  /\ LET id == findOne(LAMBDA u : (u.email = email \/ u.username = username) /\ u.isActive)
         r0 == [Idle EXCEPT !.op = "login",
                  !.in = [NoInput EXCEPT !.email = email, !.username = username,
                                         !.password = password]]
     IN IF id = 0
        THEN Reply(p, r0, PlainError(404, "User not found"))
        ELSE IF isLocked(users[id], now)
             THEN Reply(p, r0, AuthenticationError("Account is temporarily locked due to multiple failed login attempts"))
             ELSE Await(p, [r0 EXCEPT !.pc = "login_compare", !.user = users[id]])
  /\ started' = started + 1
  /\ UNCHANGED <<users, now, issued, minted, streak, bumps, uses, linked, env, rejected, rate>>

\* findOne by email or username among the active users, then the lock gate.
login(p, email, username, password) ==
  /\ CanStart(p)
  /\ LET id == findOne(LAMBDA u : (u.email = email \/ u.username = username) /\ u.isActive)
         r0 == [Idle EXCEPT !.op = "login",
                  !.in = [NoInput EXCEPT !.email = email, !.username = username,
                                         !.password = password]]
     IN IF id = 0
        THEN Reply(p, r0, AuthenticationError("Invalid credentials"))
        ELSE IF isLocked(users[id], now)
             THEN Reply(p, r0, AuthenticationError("Account is temporarily locked due to multiple failed login attempts"))
             ELSE Await(p, [r0 EXCEPT !.pc = "login_compare", !.user = users[id]])
  /\ started' = started + 1
  /\ UNCHANGED <<users, now, issued, minted, streak, bumps, uses, linked, env, rejected, rate>>

\* After comparePassword: incrementLoginAttempts and the generic error, or
\* resetLoginAttempts when the document shows earlier failures.
loginCompare(p) ==
  /\ req[p].pc = "login_compare"
  /\ LET u == req[p].user IN
     IF ~comparePassword(u, req[p].in.password)
     THEN /\ users' = [users EXCEPT ![u.id] = updateOne(u, @, incrementLoginAttemptsUpdate(u, now))]
          /\ Reply(p, req[p], AuthenticationError("Invalid credentials"))
          /\ streak' = streak + 1
     ELSE /\ users' = IF u.loginAttempts > 0
                      THEN [users EXCEPT ![u.id] = updateOne(u, @, resetLoginAttemptsUpdate)]
                      ELSE users
          /\ Await(p, [req[p] EXCEPT !.pc = "login_save"])
          /\ streak' = 0
  /\ UNCHANGED <<now, issued, started, minted, bumps, uses, linked, env, rejected, rate>>

\* Variant: the save writes the whole loaded document back, epoch and hash
\* included.
loginSave_WholeDocument(p) ==
  /\ req[p].pc = "login_save"
  /\ LET u == [req[p].user EXCEPT !.lastLogin = now]
         tokens == generateTokens(u, now)
     IN /\ users' = [users EXCEPT ![u.id] = saveDoc(@, u, {"lastLogin", "tokenVersion", "passwordHash"})]
        /\ Reply(p, req[p], Success(200, "Login successful", tokens))
        /\ issued' = issued \cup tokens
  /\ UNCHANGED <<now, started, minted, streak, bumps, uses, linked, env, rejected, rate>>

\* user.lastLogin = new Date(); await user.save(); generateTokens(user)
loginSave(p) ==
  /\ req[p].pc = "login_save"
  /\ LET u == [req[p].user EXCEPT !.lastLogin = now]
         tokens == generateTokens(u, now)
     IN /\ users' = [users EXCEPT ![u.id] = saveDoc(@, u, {"lastLogin"})]
        /\ Reply(p, req[p], Success(200, "Login successful", tokens))
        /\ issued' = issued \cup tokens
  /\ UNCHANGED <<now, started, minted, streak, bumps, uses, linked, env, rejected, rate>>

\* The store rejects the updateOne of incrementLoginAttempts or of
\* resetLoginAttempts: nothing is written, the error reaches
\* globalErrorHandler through asyncHandler and is answered 500.
loginCompareFails(p) ==
  /\ req[p].pc = "login_compare"
  /\ LET u == req[p].user
         passes == comparePassword(u, req[p].in.password)
     IN /\ ~passes \/ u.loginAttempts > 0
        /\ Reply(p, req[p], InternalError)
        /\ streak' = IF passes THEN 0 ELSE streak + 1
  /\ UNCHANGED <<users, now, issued, started, minted, bumps, uses, linked, env, rejected, rate>>

\* The store rejects the save of lastLogin: nothing is written by it, no
\* tokens are generated and the error is answered 500.
loginSaveFails(p) ==
  /\ req[p].pc = "login_save"
  /\ Reply(p, req[p], InternalError)
  /\ UNCHANGED <<users, now, issued, started, minted, streak, bumps, uses, linked, env, rejected, rate>>

\* ------------------------------------------------ AuthController.refreshToken
\* Variant: the refresh check without the comparison of epochs.
refreshAccepts_NoEpoch(user, decoded) ==
  user.exists /\ user.isActive

\* Variant: the refresh check accepts a token of an earlier epoch.
refreshAccepts_Newer(user, decoded) ==
  user.exists /\ user.isActive /\ user.tokenVersion >= decoded.tokenVersion

\* The check of the loaded user against the decoded refresh token.
refreshAccepts(user, decoded) ==
  user.exists /\ user.isActive /\ user.tokenVersion = decoded.tokenVersion

\* Variant: a refresh that rotates, moving the user to the next epoch.
refreshToken_Rotates(p, token) ==
  /\ CanStart(p)
  /\ LET id == findById(token.userId)
         user == IF id = 0 THEN NoUser ELSE users[id]
         r0 == [Idle EXCEPT !.op = "refresh", !.in = [NoInput EXCEPT !.token = token]]
         ok == token # NoToken /\ verifyRefreshToken(token, now) /\ refreshAccepts(user, token)
         tokens == IF ok THEN generateTokens(user, now) ELSE {}
     IN /\ IF token = NoToken
           THEN Reply(p, r0, ValidationError("Refresh token is required"))
           ELSE IF ~verifyRefreshToken(token, now)
                THEN Reply(p, r0, InternalError)
                ELSE IF ~refreshAccepts(user, token)
                     THEN Reply(p, r0, AuthenticationError("Invalid refresh token"))
                     ELSE Reply(p, r0, Success(200, "Token refreshed successfully", tokens))
        /\ issued' = issued \cup tokens
        /\ rejected' = IF token # NoToken /\ verifyRefreshToken(token, now)
                           /\ user.exists /\ user.isActive
                           /\ user.tokenVersion # token.tokenVersion
                        THEN rejected \cup {token}
                        ELSE rejected
  /\ started' = started + 1
  /\ users' = IF findById(token.userId) # 0 /\ token # NoToken
                  /\ verifyRefreshToken(token, now)
                  /\ refreshAccepts(users[findById(token.userId)], token)
               THEN [users EXCEPT ![token.userId].tokenVersion = @ + 1]
               ELSE users
  /\ UNCHANGED <<now, minted, streak, bumps, uses, linked, env, rate>>

\* POST /refresh: verifyRefreshToken, findById, the check of the user, and
\* generateTokens; no write.
refreshToken(p, token) ==
  /\ CanStart(p)
  /\ LET id == findById(token.userId)
         user == IF id = 0 THEN NoUser ELSE users[id]
         r0 == [Idle EXCEPT !.op = "refresh", !.in = [NoInput EXCEPT !.token = token]]
         ok == token # NoToken /\ verifyRefreshToken(token, now) /\ refreshAccepts(user, token)
         tokens == IF ok THEN generateTokens(user, now) ELSE {}
     IN /\ IF token = NoToken
           THEN Reply(p, r0, ValidationError("Refresh token is required"))
           ELSE IF ~verifyRefreshToken(token, now)
                THEN Reply(p, r0, InternalError)
                ELSE IF ~refreshAccepts(user, token)
                     THEN Reply(p, r0, AuthenticationError("Invalid refresh token"))
                     ELSE Reply(p, r0, Success(200, "Token refreshed successfully", tokens))
        /\ issued' = issued \cup tokens
        /\ rejected' = IF token # NoToken /\ verifyRefreshToken(token, now)
                           /\ user.exists /\ user.isActive
                           /\ user.tokenVersion # token.tokenVersion
                        THEN rejected \cup {token}
                        ELSE rejected
  /\ started' = started + 1
  /\ UNCHANGED <<users, now, minted, streak, bumps, uses, linked, env, rate>>

\* ---------------------------------------------------------- authenticateToken
\* The check of the loaded user by the middleware.
authenticateAccepts(user, decoded) == user.exists /\ user.isActive

\* The middleware in front of a protected route; on success req.user is the
\* decoded token and the route's handler runs from `next`.
authenticateToken(p, op, token, input, next) ==
  /\ CanStart(p)
  /\ LET id == findById(token.userId)
         user == IF id = 0 THEN NoUser ELSE users[id]
         r0 == [Idle EXCEPT !.op = op, !.in = [input EXCEPT !.token = token]]
     IN IF token = NoToken
        THEN Reply(p, r0, PlainError(401, "Access token is required"))
        ELSE IF ~verifyAccessToken(token, now)
             THEN Reply(p, r0, PlainError(401, "Invalid access token"))
             ELSE IF ~authenticateAccepts(user, token)
                  THEN Reply(p, r0, PlainError(401, "User not found or inactive"))
                  ELSE Await(p, [r0 EXCEPT !.pc = next, !.decoded = token])
  /\ started' = started + 1
  /\ UNCHANGED <<users, now, issued, minted, streak, bumps, uses, linked, env, rejected, rate>>

\* -------------------------------------------- AuthController.getCurrentUser
getCurrentUser(p, token) == authenticateToken(p, "me", token, NoInput, "me_find")

getCurrentUserFind(p) ==
  /\ req[p].pc = "me_find"
  /\ IF findById(req[p].decoded.userId) = 0
     THEN Reply(p, req[p], [status |-> 404, code |-> "NOT_FOUND_ERROR",
                            message |-> "User not found", tokens |-> {}])
     ELSE Reply(p, req[p], Success(200, "User information retrieved successfully", {}))
  /\ UNCHANGED <<users, now, issued, started, minted, streak, bumps, uses, linked, env, rejected, rate>>

\* ------------------------------------------------------ AuthController.logout
logout(p, token) == authenticateToken(p, "logout", token, NoInput, "logout_find")

\* findById, then user.tokenVersion += 1 on the loaded document.
logoutFind(p) ==
  /\ req[p].pc = "logout_find"
  /\ LET id == findById(req[p].decoded.userId)
     IN IF id = 0
        THEN Reply(p, req[p], Success(200, "Logout successful", {}))
        ELSE Await(p, [req[p] EXCEPT !.pc = "logout_save",
                         !.user = [users[id] EXCEPT !.tokenVersion = @ + 1],
                         !.dirty = {"tokenVersion"}])
  /\ UNCHANGED <<users, now, issued, started, minted, streak, bumps, uses, linked, env, rejected, rate>>

\* await user.save()
logoutSave(p) ==
  /\ req[p].pc = "logout_save"
  /\ users' = [users EXCEPT ![req[p].user.id] = saveDoc(@, req[p].user, req[p].dirty)]
  /\ Reply(p, req[p], Success(200, "Logout successful", {}))
  /\ bumps' = bumps + 1
  /\ UNCHANGED <<now, issued, started, minted, streak, uses, linked, env, rejected, rate>>

\* -------------------------------------------------- PasswordController.change
change(p, token, currentPassword, password) ==
  authenticateToken(p, "change", token,
                    [NoInput EXCEPT !.password = currentPassword, !.newPassword = password],
                    "change_find")

changeFind(p) ==
  /\ req[p].pc = "change_find"
  /\ LET id == findById(req[p].decoded.userId)
     IN IF id = 0
        THEN Reply(p, req[p], PlainError(404, "User not found"))
        ELSE Await(p, [req[p] EXCEPT !.pc = "change_save", !.user = users[id]])
  /\ UNCHANGED <<users, now, issued, started, minted, streak, bumps, uses, linked, env, rejected, rate>>

\* Variant: the password is changed without the epoch bump.
changeSave_NoBump(p) ==
  /\ req[p].pc = "change_save"
  /\ LET u == req[p].user
         d == [u EXCEPT !.passwordHash = rawPassword(req[p].in.newPassword)]
     IN IF ~comparePassword(u, req[p].in.password)
        THEN /\ Reply(p, req[p], PlainError(401, "Current password is incorrect"))
             /\ UNCHANGED <<users, bumps, uses, linked, env, rejected, rate>>
        ELSE /\ users' = [users EXCEPT ![u.id] = saveDoc(@, d, {"passwordHash"})]
             /\ Reply(p, req[p], Success(200, "Password changed successfully", {}))
             /\ bumps' = bumps + 1
  /\ UNCHANGED <<now, issued, started, minted, streak, uses, linked, env, rejected, rate>>

\* comparePassword on the loaded document, then the new hash and the epoch
\* bump are assigned and saved.
changeSave(p) ==
  /\ req[p].pc = "change_save"
  /\ LET u == req[p].user
         d == [u EXCEPT !.passwordHash = rawPassword(req[p].in.newPassword),
                        !.tokenVersion = @ + 1]
     IN IF ~comparePassword(u, req[p].in.password)
        THEN /\ Reply(p, req[p], PlainError(401, "Current password is incorrect"))
             /\ UNCHANGED <<users, bumps, uses, linked, env, rejected, rate>>
        ELSE /\ users' = [users EXCEPT ![u.id] = saveDoc(@, d, {"passwordHash", "tokenVersion"})]
             /\ Reply(p, req[p], Success(200, "Password changed successfully", {}))
             /\ bumps' = bumps + 1
  /\ UNCHANGED <<now, issued, started, minted, streak, uses, linked, env, rejected, rate>>

\* -------------------------------------------- PasswordController.requestReset
\* findOne({email}), then generatePasswordResetToken on the loaded document.
requestReset(p, email) ==
  /\ CanStart(p)
  /\ minted < MaxRaw
  /\ LET id == findOne(LAMBDA u : u.email = email)
         r0 == [Idle EXCEPT !.op = "requestReset", !.in = [NoInput EXCEPT !.email = email]]
     IN /\ IF id = 0
           THEN Reply(p, r0, PlainError(404, "User not found"))
           ELSE Await(p, [r0 EXCEPT !.pc = "request_save",
                            !.user = [users[id] EXCEPT !.passwordResetToken = minted + 1,
                                                       !.passwordResetExpires = now + resetExpiry],
                            !.dirty = {"passwordResetToken", "passwordResetExpires"}])
        /\ minted' = IF id = 0 THEN minted ELSE minted + 1
  /\ started' = started + 1
  /\ UNCHANGED <<users, now, issued, streak, bumps, uses, linked, env, rejected, rate>>

requestResetSave(p) ==
  /\ req[p].pc = "request_save"
  /\ users' = [users EXCEPT ![req[p].user.id] = saveDoc(@, req[p].user, req[p].dirty)]
  /\ Reply(p, req[p], Success(200, "Password reset link sent to your email", {}))
  /\ UNCHANGED <<now, issued, started, minted, streak, bumps, uses, linked, env, rejected, rate>>

\* --------------------------------------------------- PasswordController.reset
\* Variant: the lookup does not ask for an expiry in the future.
reset_IgnoresExpiry(p, raw, password) ==
  /\ CanStart(p)
  /\ LET id == findOne(LAMBDA u : u.passwordResetToken = raw)
         r0 == [Idle EXCEPT !.op = "reset",
                  !.in = [NoInput EXCEPT !.raw = raw, !.newPassword = password]]
     IN IF id = 0
        THEN Reply(p, r0, PlainError(400, "Invalid or expired reset token"))
        ELSE Await(p, [r0 EXCEPT !.pc = "reset_save",
                         !.user = [users[id] EXCEPT !.passwordHash = rawPassword(password),
                                                    !.passwordResetToken = Null,
                                                    !.passwordResetExpires = Null,
                                                    !.tokenVersion = @ + 1],
                         !.dirty = {"passwordHash", "passwordResetToken",
                                    "passwordResetExpires", "tokenVersion"}])
  /\ started' = started + 1
  /\ UNCHANGED <<users, now, issued, minted, streak, bumps, uses, linked, env, rejected, rate>>

\* Variant: the lookup accepts every token issued so far while the record
\* has an unexpired one.
reset_AnyIssued(p, raw, password) ==
  /\ CanStart(p)
  /\ LET id == findOne(LAMBDA u : u.passwordResetToken # Null /\ raw <= minted
                                  /\ u.passwordResetExpires > now)
         r0 == [Idle EXCEPT !.op = "reset",
                  !.in = [NoInput EXCEPT !.raw = raw, !.newPassword = password]]
     IN IF id = 0
        THEN Reply(p, r0, PlainError(400, "Invalid or expired reset token"))
        ELSE Await(p, [r0 EXCEPT !.pc = "reset_save",
                         !.user = [users[id] EXCEPT !.passwordHash = rawPassword(password),
                                                    !.passwordResetToken = Null,
                                                    !.passwordResetExpires = Null,
                                                    !.tokenVersion = @ + 1],
                         !.dirty = {"passwordHash", "passwordResetToken",
                                    "passwordResetExpires", "tokenVersion"}])
  /\ started' = started + 1
  /\ UNCHANGED <<users, now, issued, minted, streak, bumps, uses, linked, env, rejected, rate>>

\* findOne by token with an expiry in the future, then the new hash, the
\* cleared token and the epoch bump are assigned on the loaded document.
reset(p, raw, password) ==
  /\ CanStart(p)
  /\ LET id == findOne(LAMBDA u : u.passwordResetToken = raw /\ u.passwordResetExpires > now)
         r0 == [Idle EXCEPT !.op = "reset",
                  !.in = [NoInput EXCEPT !.raw = raw, !.newPassword = password]]
     IN IF id = 0
        THEN Reply(p, r0, PlainError(400, "Invalid or expired reset token"))
        ELSE Await(p, [r0 EXCEPT !.pc = "reset_save",
                         !.user = [users[id] EXCEPT !.passwordHash = rawPassword(password),
                                                    !.passwordResetToken = Null,
                                                    !.passwordResetExpires = Null,
                                                    !.tokenVersion = @ + 1],
                         !.dirty = {"passwordHash", "passwordResetToken",
                                    "passwordResetExpires", "tokenVersion"}])
  /\ started' = started + 1
  /\ UNCHANGED <<users, now, issued, minted, streak, bumps, uses, linked, env, rejected, rate>>

\* Variant: the save of the reset also clears the failed-login counter and
\* the lock.
resetSave_Unlocks(p) ==
  /\ req[p].pc = "reset_save"
  /\ users' = [users EXCEPT ![req[p].user.id] =
                 saveDoc(@, [req[p].user EXCEPT !.loginAttempts = 0, !.lockUntil = Null],
                         req[p].dirty \cup {"loginAttempts", "lockUntil"})]
  /\ Reply(p, req[p], Success(200, "Password reset successful", {}))
  /\ bumps' = bumps + 1
  /\ uses' = [uses EXCEPT ![req[p].in.raw] = @ + 1]
  /\ UNCHANGED <<linked, env, rejected, rate>>
  /\ UNCHANGED <<now, issued, started, minted, streak>>

\* user.save() of the document the lookup prepared.
resetSave(p) ==
  /\ req[p].pc = "reset_save"
  /\ users' = [users EXCEPT ![req[p].user.id] = saveDoc(@, req[p].user, req[p].dirty)]
  /\ Reply(p, req[p], Success(200, "Password reset successful", {}))
  /\ bumps' = bumps + 1
  /\ uses' = [uses EXCEPT ![req[p].in.raw] = @ + 1]
  /\ UNCHANGED <<linked, env, rejected, rate>>
  /\ UNCHANGED <<now, issued, started, minted, streak>>

\* ------------------------------------------------- AuthController.verifyEmail
\* findOne by token with an expiry in the future, then isVerified and the
\* cleared token are assigned on the loaded document.
verifyEmail(p, raw) ==
  /\ CanStart(p)
  /\ LET id == findOne(LAMBDA u : u.emailVerificationToken = raw
                                  /\ u.emailVerificationExpires > now)
         r0 == [Idle EXCEPT !.op = "verifyEmail", !.in = [NoInput EXCEPT !.raw = raw]]
     IN IF id = 0
        THEN Reply(p, r0, ValidationError("Invalid or expired verification token"))
        ELSE Await(p, [r0 EXCEPT !.pc = "verify_save",
                         !.user = [users[id] EXCEPT !.isVerified = TRUE,
                                                    !.emailVerificationToken = Null,
                                                    !.emailVerificationExpires = Null],
                         !.dirty = {"isVerified", "emailVerificationToken",
                                    "emailVerificationExpires"}])
  /\ started' = started + 1
  /\ UNCHANGED <<users, now, issued, minted, streak, bumps, uses, linked, env, rejected, rate>>

verifyEmailSave(p) ==
  /\ req[p].pc = "verify_save"
  /\ users' = [users EXCEPT ![req[p].user.id] = saveDoc(@, req[p].user, req[p].dirty)]
  /\ Reply(p, req[p], Success(200, "Email verified successfully", {}))
  /\ uses' = [uses EXCEPT ![req[p].in.raw] = @ + 1]
  /\ UNCHANGED <<linked, env, rejected, rate>>
  /\ UNCHANGED <<now, issued, started, minted, streak, bumps>>

\* ---------------------------------------------- UserController.deleteAccount
\* `deleted_${Date.now()}_${name}`: the time stamp is left out of the value
\* (deletedLength counts its digits); the result is a name no request of the
\* model supplies.
deletedName(name) == "deleted_" \o name

\* The username validators of the schema, run by save() on a modified
\* username: maxlength 30 on the renamed value, whose time stamp has
\* timestampDigits digits.
usernameMaxLength == 30
timestampDigits == 13

deletedLength(name) == Len("deleted_") + timestampDigits + Len("_") + Len(name)

validUsername(name) == deletedLength(name) <= usernameMaxLength

deleteAccount(p, token, password) ==
  authenticateToken(p, "deleteAccount", token, [NoInput EXCEPT !.password = password],
                    "delete_find")

deleteAccountFind(p) ==
  /\ req[p].pc = "delete_find"
  /\ LET id == findById(req[p].decoded.userId)
     IN IF id = 0
        THEN Reply(p, req[p], PlainError(404, "User not found"))
        ELSE Await(p, [req[p] EXCEPT !.pc = "delete_save", !.user = users[id]])
  /\ UNCHANGED <<users, now, issued, started, minted, streak, bumps, uses, linked, env, rejected, rate>>

\* comparePassword on the loaded document, then the soft delete is assigned
\* and saved; a save refused by the validators is caught and answered 500.
deleteAccountSave(p) ==
  /\ req[p].pc = "delete_save"
  /\ LET u == req[p].user
         d == [u EXCEPT !.isActive = FALSE,
                        !.email = deletedName(@),
                        !.username = deletedName(@)]
     IN IF ~comparePassword(u, req[p].in.password)
        THEN /\ Reply(p, req[p], PlainError(401, "Invalid password"))
             /\ UNCHANGED users
        ELSE IF ~validUsername(u.username)
        THEN /\ Reply(p, req[p], PlainError(500, "Failed to delete account"))
             /\ UNCHANGED users
        ELSE /\ users' = [users EXCEPT ![u.id] = saveDoc(@, d, {"isActive", "email", "username"})]
             /\ Reply(p, req[p], Success(200, "Account deleted successfully", {}))
  /\ UNCHANGED <<now, issued, started, minted, streak, bumps, uses, linked, env, rejected, rate>>

\* ---------------------------------------------------- AuthController.register
\* findOne by email or username, then the new document with its
\* verification token.
register(p, username, email, password) ==
  /\ CanStart(p)
  /\ minted < MaxRaw
  /\ Cardinality({i \in Ids : users[i].exists})
       + Cardinality({q \in Procs : req[q].pc = "register_save"}) < MaxUsers
  /\ LET id == findOne(LAMBDA u : u.email = email \/ u.username = username)
         r0 == [Idle EXCEPT !.op = "register",
                  !.in = [NoInput EXCEPT !.email = email, !.username = username,
                                         !.password = password]]
     IN /\ IF id # 0
           THEN Reply(p, r0, ConflictError(IF users[id].email = email
                                           THEN "Email already registered"
                                           ELSE "Username already taken"))
           ELSE Await(p, [r0 EXCEPT !.pc = "register_save",
                            !.user = [NewUser(0, username, email, rawPassword(password)) EXCEPT
                                        !.emailVerificationToken = minted + 1,
                                        !.emailVerificationExpires = now + verificationExpiry],
                            !.dirty = {"passwordHash"}])
        /\ minted' = IF id # 0 THEN minted ELSE minted + 1
  /\ started' = started + 1
  /\ UNCHANGED <<users, now, issued, streak, bumps, uses, linked, env, rejected, rate>>

\* Variant: the insert without the unique indexes.
registerSave_NoIndex(p) ==
  /\ req[p].pc = "register_save"
  /\ LET d == req[p].user
         id == CHOOSE i \in Ids : ~users[i].exists /\ \A j \in Ids : ~users[j].exists => i <= j
         u == preSave([d EXCEPT !.id = id], req[p].dirty)
         tokens == generateTokens(u, now)
     IN /\ users' = [users EXCEPT ![id] = u]
        /\ Reply(p, req[p], Success(201, "Registration successful. Please check your email for verification.", tokens))
        /\ issued' = issued \cup tokens
  /\ UNCHANGED <<now, started, minted, streak, bumps, uses, linked, env, rejected, rate>>

\* await user.save(): the insert, refused by the unique indexes on email and
\* username (error 11000, sent as a ConflictError); then generateTokens.
registerSave(p) ==
  /\ req[p].pc = "register_save"
  /\ LET d == req[p].user
         dup == \E i \in Ids : users[i].exists
                               /\ (users[i].email = d.email \/ users[i].username = d.username)
         id == CHOOSE i \in Ids : ~users[i].exists /\ \A j \in Ids : ~users[j].exists => i <= j
         u == preSave([d EXCEPT !.id = id], req[p].dirty)
         tokens == generateTokens(u, now)
     IN IF dup
        THEN /\ Reply(p, req[p], ConflictError("already exists"))
             /\ UNCHANGED <<users, issued>>
        ELSE /\ users' = [users EXCEPT ![id] = u]
             /\ Reply(p, req[p], Success(201, "Registration successful. Please check your email for verification.", tokens))
             /\ issued' = issued \cup tokens
  /\ UNCHANGED <<now, started, minted, streak, bumps, uses, linked, env, rejected, rate>>

\* -------------------------------------------------------------- OAuthService
\* The profile a provider hands to the verify callback: profile.id,
\* profile.emails[0].value, and profile.displayName (google, linkedin) or
\* profile.username (github).
Providers == {"google", "github", "linkedin"}
ExternalIds == 1..MaxExternal
ProfileNames == {"User1", "ann-lee"}
Suffixes == 0..(MaxSuffix - 1) \* Math.floor(Math.random() * 1000)

\* String.toLowerCase() over the names of the model
toLowerCase(name) ==
  CASE name = "User1" -> "user1"
    [] OTHER -> name

\* replace(/[^a-z0-9]/g, '') over the lower-cased names of the model
alphanumeric(name) ==
  CASE name = "ann-lee" -> "annlee"
    [] OTHER -> name

\* generateUsername(displayName), k the random number drawn; the names of
\* the model are shorter than the 20 characters substring(0, 20) keeps.
generateUsername(displayName, k) == alphanumeric(toLowerCase(displayName)) \o ToString(k)

\* The username of a new OAuth user: generateUsername for google and
\* linkedin, the lower-cased profile.username for github.
profileUsername(provider, name, k) ==
  IF provider = "github" THEN toLowerCase(name) ELSE generateUsername(name, k)

\* The validators of the username path: minlength, maxlength and the match
\* /^[a-zA-Z0-9_]+$/ over the names of the model.
usernameMinLength == 3

matchesUsername(name) == name # "ann-lee"

usernameValid(name) ==
  /\ Len(name) >= usernameMinLength
  /\ Len(name) <= usernameMaxLength
  /\ matchesUsername(name)

\* Requests that may still insert a record.
Inserting == {q \in Procs : req[q].pc \in {"register_save", "oauth_email", "oauth_create_save"}}

\* res.redirect of the provider callback: to /auth/callback with the token
\* pair of generateTokens(user), or to /login?error=oauth_failed.
OAuthRedirect(tokens) == Success(302, "/auth/callback", tokens)

OAuthFailed == PlainError(302, "/login?error=oauth_failed")

\* Variant: a login matched by provider and external id stamps the record.
oauthCallback_Touches(p, provider, oauthId, email, name) ==
  /\ CanStart(p)
  /\ \/ \E i \in Ids : /\ users[i].exists
                       /\ \/ users[i].oauthId = oauthId /\ users[i].oauthProvider = provider
                          \/ users[i].email = email
     \/ Cardinality({i \in Ids : users[i].exists}) + Cardinality(Inserting) < MaxUsers
  /\ LET id == findOne(LAMBDA u : u.oauthId = oauthId /\ u.oauthProvider = provider)
         r0 == [Idle EXCEPT !.op = "oauth",
                  !.in = [NoInput EXCEPT !.provider = provider, !.oauthId = oauthId,
                                         !.email = email, !.username = name]]
         tokens == generateTokens(users[id], now)
     IN IF id # 0
        THEN /\ Reply(p, r0, OAuthRedirect(tokens))
             /\ issued' = issued \cup tokens
             /\ users' = [users EXCEPT ![id].lastLogin = now]
        ELSE /\ Await(p, [r0 EXCEPT !.pc = "oauth_email"])
             /\ UNCHANGED <<issued, users>>
  /\ started' = started + 1
  /\ UNCHANGED <<now, minted, streak, bumps, uses, linked, env, rejected, rate>>

\* Variant: a login matched by provider and external id is refused while the
\* record is locked.
oauthCallback_Gated(p, provider, oauthId, email, name) ==
  /\ CanStart(p)
  /\ \/ \E i \in Ids : /\ users[i].exists
                       /\ \/ users[i].oauthId = oauthId /\ users[i].oauthProvider = provider
                          \/ users[i].email = email
     \/ Cardinality({i \in Ids : users[i].exists}) + Cardinality(Inserting) < MaxUsers
  /\ LET id == findOne(LAMBDA u : u.oauthId = oauthId /\ u.oauthProvider = provider)
         r0 == [Idle EXCEPT !.op = "oauth",
                  !.in = [NoInput EXCEPT !.provider = provider, !.oauthId = oauthId,
                                         !.email = email, !.username = name]]
         tokens == generateTokens(users[id], now)
     IN IF id # 0 /\ isLocked(users[id], now)
        THEN /\ Reply(p, r0, OAuthFailed)
             /\ issued' = issued
        ELSE IF id # 0
        THEN /\ Reply(p, r0, OAuthRedirect(tokens))
             /\ issued' = issued \cup tokens
        ELSE /\ Await(p, [r0 EXCEPT !.pc = "oauth_email"])
             /\ issued' = issued
  /\ started' = started + 1
  /\ UNCHANGED <<users, now, minted, streak, bumps, uses, linked, env, rejected, rate>>

\* The verify callback up to its first await and, on a match, the provider
\* callback: findOne by oauthId and oauthProvider; a record found is handed
\* to done() as it is and the tokens are generated from it.
oauthCallback(p, provider, oauthId, email, name) ==
  /\ CanStart(p)
  /\ \/ \E i \in Ids : /\ users[i].exists
                       /\ \/ users[i].oauthId = oauthId /\ users[i].oauthProvider = provider
                          \/ users[i].email = email
     \/ Cardinality({i \in Ids : users[i].exists}) + Cardinality(Inserting) < MaxUsers
  /\ LET id == findOne(LAMBDA u : u.oauthId = oauthId /\ u.oauthProvider = provider)
         r0 == [Idle EXCEPT !.op = "oauth",
                  !.in = [NoInput EXCEPT !.provider = provider, !.oauthId = oauthId,
                                         !.email = email, !.username = name]]
         tokens == generateTokens(users[id], now)
     IN IF id # 0
        THEN /\ Reply(p, r0, OAuthRedirect(tokens))
             /\ issued' = issued \cup tokens
        ELSE /\ Await(p, [r0 EXCEPT !.pc = "oauth_email"])
             /\ issued' = issued
  /\ started' = started + 1
  /\ UNCHANGED <<users, now, minted, streak, bumps, uses, linked, env, rejected, rate>>

\* Variant: a record that is linked already keeps its provider.
oauthFindEmail_KeepsFirst(p) ==
  /\ req[p].pc = "oauth_email"
  /\ LET inp == req[p].in
         id == findOne(LAMBDA u : u.email = inp.email)
     IN IF id # 0
        THEN Await(p, [req[p] EXCEPT
                         !.pc = "oauth_link_save",
                         !.user = IF users[id].oauthProvider = "local"
                                  THEN [users[id] EXCEPT !.oauthProvider = inp.provider,
                                                         !.oauthId = inp.oauthId,
                                                         !.isVerified = TRUE]
                                  ELSE users[id],
                         !.dirty = {"oauthProvider", "oauthId", "isVerified"}])
        ELSE \E k \in Suffixes :
               Await(p, [req[p] EXCEPT
                           !.pc = "oauth_create_save",
                           !.user = [NewUser(0, profileUsername(inp.provider, inp.username, k),
                                             inp.email, NoHash) EXCEPT
                                       !.oauthProvider = inp.provider,
                                       !.oauthId = inp.oauthId,
                                       !.isVerified = TRUE]])
  /\ UNCHANGED <<users, now, issued, started, minted, streak, bumps, uses, linked, env, rejected, rate>>

\* findOne by email: a record found is linked (oauthProvider, oauthId and
\* isVerified assigned), otherwise a new User is built.
oauthFindEmail(p) ==
  /\ req[p].pc = "oauth_email"
  /\ LET inp == req[p].in
         id == findOne(LAMBDA u : u.email = inp.email)
     IN IF id # 0
        THEN Await(p, [req[p] EXCEPT
                         !.pc = "oauth_link_save",
                         !.user = [users[id] EXCEPT !.oauthProvider = inp.provider,
                                                    !.oauthId = inp.oauthId,
                                                    !.isVerified = TRUE],
                         !.dirty = {"oauthProvider", "oauthId", "isVerified"}])
        ELSE \E k \in Suffixes :
               Await(p, [req[p] EXCEPT
                           !.pc = "oauth_create_save",
                           !.user = [NewUser(0, profileUsername(inp.provider, inp.username, k),
                                             inp.email, NoHash) EXCEPT
                                       !.oauthProvider = inp.provider,
                                       !.oauthId = inp.oauthId,
                                       !.isVerified = TRUE]])
  /\ UNCHANGED <<users, now, issued, started, minted, streak, bumps, uses, linked, env, rejected, rate>>

\* Variant: linking replaces the credentials of the record.
oauthLinkSave_DropsPassword(p) ==
  /\ req[p].pc = "oauth_link_save"
  /\ LET u == [req[p].user EXCEPT !.passwordHash = NoHash]
         tokens == generateTokens(u, now)
     IN /\ users' = [users EXCEPT ![u.id] = saveDoc(@, u, req[p].dirty \cup {"passwordHash"})]
        /\ Reply(p, req[p], OAuthRedirect(tokens))
        /\ issued' = issued \cup tokens
  /\ linked' = [linked EXCEPT ![req[p].user.id] =
                  Append(@, [provider |-> req[p].in.provider, oauthId |-> req[p].in.oauthId])]
  /\ UNCHANGED <<now, started, minted, streak, bumps, uses, env, rejected, rate>>

\* await user.save() of the linked document, done(null, user), and the
\* provider callback.
oauthLinkSave(p) ==
  /\ req[p].pc = "oauth_link_save"
  /\ LET u == req[p].user
         tokens == generateTokens(u, now)
     IN /\ users' = [users EXCEPT ![u.id] = saveDoc(@, u, req[p].dirty)]
        /\ Reply(p, req[p], OAuthRedirect(tokens))
        /\ issued' = issued \cup tokens
  /\ linked' = [linked EXCEPT ![req[p].user.id] =
                  Append(@, [provider |-> req[p].in.provider, oauthId |-> req[p].in.oauthId])]
  /\ UNCHANGED <<now, started, minted, streak, bumps, uses, env, rejected, rate>>

\* await newUser.save(): the insert, refused by the validators of the
\* username or by the unique indexes on email and username; the error goes
\* to done(error, null) and the provider callback redirects to the login
\* page.
oauthCreateSave(p) ==
  /\ req[p].pc = "oauth_create_save"
  /\ \E i \in Ids : ~users[i].exists
  /\ LET d == req[p].user
         dup == \E i \in Ids : users[i].exists
                               /\ (users[i].email = d.email \/ users[i].username = d.username)
         id == CHOOSE i \in Ids : ~users[i].exists /\ \A j \in Ids : ~users[j].exists => i <= j
         u == preSave([d EXCEPT !.id = id], req[p].dirty)
         tokens == generateTokens(u, now)
     IN IF ~usernameValid(d.username) \/ dup
        THEN /\ Reply(p, req[p], OAuthFailed)
             /\ UNCHANGED <<users, issued>>
        ELSE /\ users' = [users EXCEPT ![id] = u]
             /\ Reply(p, req[p], OAuthRedirect(tokens))
             /\ issued' = issued \cup tokens
  /\ UNCHANGED <<now, started, minted, streak, bumps, uses, linked, env, rejected, rate>>

\* ------------------------------------------------------------- environment
Tick ==
  /\ now < MaxTime
  /\ now' = now + 1
  /\ UNCHANGED <<users, req, issued, started, minted, last, streak, bumps, uses, linked, env, rejected, rate>>

\* ------------------------------------------------------------ initial states
\* The collection as one completed registration of (user1, e1, p1) at time 0
\* left it, the tokens of that registration held by the client.
RegisteredUser ==
  [NewUser(1, "user1", "e1", bcryptHash("p1")) EXCEPT
     !.emailVerificationToken = 1,
     !.emailVerificationExpires = verificationExpiry]

Init ==
  /\ users = [i \in Ids |-> IF i = 1 THEN RegisteredUser ELSE NoUser]
  /\ now = 0
  /\ req = [p \in Procs |-> Idle]
  /\ issued = generateTokens(RegisteredUser, 0)
  /\ started = 0
  /\ minted = 1
  /\ last = NoLast
  /\ streak = 0
  /\ bumps = 0
  /\ uses = [r \in RawTokens |-> 0]
  /\ linked = [i \in Ids |-> <<>>]
  /\ env = "production"
  /\ rejected = {}
  /\ rate = NoRate

\* An empty collection.
InitEmpty ==
  /\ users = [i \in Ids |-> NoUser]
  /\ now = 0
  /\ req = [p \in Procs |-> Idle]
  /\ issued = {}
  /\ started = 0
  /\ minted = 0
  /\ last = NoLast
  /\ streak = 0
  /\ bumps = 0
  /\ uses = [r \in RawTokens |-> 0]
  /\ linked = [i \in Ids |-> <<>>]
  /\ env = "production"
  /\ rejected = {}
  /\ rate = NoRate

AllIdle == \A p \in Procs : req[p].pc = "idle"

\* Every string a client can present as a JWT.
Presentable == issued \cup {GarbageToken}

\* ------------------------------------------------------------- session runs
\* Requests for the registered user, up to NumWorkers of them served
\* concurrently and `budget` of them started.
Session(budget) ==
  \/ \E p \in Workers, email \in Emails, pw \in Passwords :
       started < budget /\ login(p, email, "", pw)
  \/ \E p \in Workers : loginCompare(p)
  \/ \E p \in Workers : loginSave(p)
  \/ \E p \in Workers, t \in Presentable :
       started < budget /\ refreshToken(p, t)
  \/ \E p \in Workers, t \in Presentable :
       started < budget /\ getCurrentUser(p, t)
  \/ \E p \in Workers : getCurrentUserFind(p)
  \/ \E p \in Workers, t \in Presentable :
       started < budget /\ logout(p, t)
  \/ \E p \in Workers : logoutFind(p)
  \/ \E p \in Workers : logoutSave(p)
  \/ \E p \in Workers, t \in Presentable, cur \in Passwords, pw \in Passwords :
       started < budget /\ change(p, t, cur, pw)
  \/ \E p \in Workers : changeFind(p)
  \/ \E p \in Workers : changeSave(p)
  \/ \E p \in Workers :
       started < budget /\ requestReset(p, "e1")
  \/ \E p \in Workers : requestResetSave(p)
  \/ \E p \in Workers, raw \in RawTokens, pw \in Passwords :
       started < budget /\ reset(p, raw, pw)
  \/ \E p \in Workers : resetSave(p)
  \/ \E p \in Workers, raw \in RawTokens :
       started < budget /\ verifyEmail(p, raw)
  \/ \E p \in Workers : verifyEmailSave(p)
  \/ \E p \in Workers, t \in Presentable, pw \in Passwords :
       started < budget /\ deleteAccount(p, t, pw)
  \/ \E p \in Workers : deleteAccountFind(p)
  \/ \E p \in Workers : deleteAccountSave(p)
  \/ Tick

Next == Session(MaxRequests)

Spec == Init /\ [][Next]_vars

\* Longer session runs, for the races among epoch bumps.
NextEpoch == Session(MaxEpochRequests)

SpecEpoch == Init /\ [][NextEpoch]_vars

\* ------------------------------------------------------------ lockout runs
\* Logins for the registered user, one request at a time.
NextLockoutSeq ==
  \/ \E p \in Procs, pw \in Passwords :
       started < MaxSeqRequests /\ AllIdle /\ login(p, "e1", "", pw)
  \/ \E p \in Procs : loginCompare(p)
  \/ \E p \in Procs : loginSave(p)
  \/ Tick

SpecLockoutSeq == Init /\ [][NextLockoutSeq]_vars

\* A burst of NumBurst logins with a wrong password, served in parallel.
NextBurst ==
  \/ \E p \in Procs : started < NumBurst /\ login(p, "e1", "", "p2")
  \/ \E p \in Procs : loginCompare(p)
  \/ Tick

SpecBurst == Init /\ [][NextBurst]_vars

\* ------------------------------------------------------------ scenario run
\* From an empty collection, one request at a time: register, login, logout
\* with an access token of the client, refresh with a refresh token of the
\* client.
IsAccess(t) == t.secret = "jwt.secret"

IsRefresh(t) == t.secret = "refreshToken.secret"

NextScenario ==
  \/ \E p \in Procs : started = 0 /\ register(p, "user1", "e1", "p1")
  \/ \E p \in Procs : registerSave(p)
  \/ \E p \in Procs : started = 1 /\ AllIdle /\ login(p, "e1", "", "p1")
  \/ \E p \in Procs : loginCompare(p)
  \/ \E p \in Procs : loginSave(p)
  \/ \E p \in Procs, t \in issued :
       started = 2 /\ AllIdle /\ IsAccess(t) /\ logout(p, t)
  \/ \E p \in Procs : logoutFind(p)
  \/ \E p \in Procs : logoutSave(p)
  \/ \E p \in Procs, t \in issued :
       started = 3 /\ AllIdle /\ IsRefresh(t) /\ refreshToken(p, t)
  \/ Tick

SpecScenario == InitEmpty /\ [][NextScenario]_vars

\* ===================================================================== claims
\* The lock state of a stored record, read off its fields.
Locked(i) == users[i].lockUntil # Null /\ users[i].lockUntil > now

\* The step is the start of a request that was answered at once.
AnsweredAtOnce(op) == started' = started + 1 /\ req' = req /\ last'.op = op

\* The step hands slot p's request from the middleware to its route handler.
PassesMiddleware(p) == req[p].pc = "idle" /\ req'[p].decoded # NoToken

\* The step ends slot p's login with a failed password check.
FailsPassword(p) == req[p].pc = "login_compare" /\ req'[p].pc = "idle"

\* C1: authenticateToken accepts an access token only if the tokenVersion it
\* embeds equals the user's stored tokenVersion, so every access token minted
\* before a logout, changePassword or resetPassword is rejected afterwards.
C1_AccessTokenBoundToEpoch ==
  [][\A p \in Procs :
       PassesMiddleware(p) =>
         req'[p].decoded.tokenVersion = users[req'[p].decoded.userId].tokenVersion]_vars

\* C2: Refresh returns no tokens whenever the tokenVersion of the stored user
\* it observes differs from the epoch embedded in the presented refresh
\* token (or no such user is stored).
C2_RefreshRejectsEpochMismatch ==
  [][AnsweredAtOnce("refresh") =>
       LET t == last'.in.token
           same == /\ t.userId \in Ids
                   /\ users[t.userId].exists
                   /\ users[t.userId].tokenVersion = t.tokenVersion
       IN ~same => /\ last'.res.tokens = {}
                   /\ last'.res.status # 200
                   /\ issued' = issued]_vars

\* A refresh token of an earlier epoch, unexpired, was presented after an
\* epoch bump and answered with the authentication error.
C2_Witness ==
  /\ last.op = "refresh"
  /\ last.in.token \in issued
  /\ last.in.token.tokenVersion < users[1].tokenVersion
  /\ bumps > 0
  /\ last.res = AuthenticationError("Invalid refresh token")

\* C3: in the sequential scenario Register stores the user with tokenVersion
\* 0 and returns tokens, Login with the correct password returns tokens of
\* epoch 0, a successful Logout leaves tokenVersion exactly 1, and the
\* following Refresh with a refresh token of epoch 0 fails with the
\* authentication error (unless that token has expired by then) and returns
\* no tokens.
C3_Scenario ==
  AllIdle =>
    /\ started = 1 =>
         /\ last.op = "register" /\ last.res.status = 201
         /\ users[1].exists /\ users[1].tokenVersion = 0
         /\ last.res.tokens # {}
         /\ \A t \in last.res.tokens : t.userId = 1 /\ t.tokenVersion = 0
    /\ started = 2 =>
         /\ last.op = "login" /\ last.res.status = 200
         /\ \E t \in last.res.tokens : IsAccess(t)
         /\ \E t \in last.res.tokens : IsRefresh(t)
         /\ \A t \in last.res.tokens : t.userId = 1 /\ t.tokenVersion = 0
    /\ (started = 3 /\ last.res.status = 200) =>
         /\ last.op = "logout"
         /\ users[1].tokenVersion = 1
    /\ (started = 4 /\ users[1].tokenVersion = 1) =>
         /\ last.op = "refresh"
         /\ last.in.token.tokenVersion = 0
         /\ last.res.tokens = {}
         /\ \/ last.res = AuthenticationError("Invalid refresh token")
            \/ last.in.token.exp <= now

\* The scenario ran to its end: the logout succeeded and the refresh token
\* of epoch 0, still unexpired, was refused.
C3_Witness ==
  /\ AllIdle /\ started = 4
  /\ users[1].tokenVersion = 1
  /\ last.in.token.exp > now
  /\ last.res = AuthenticationError("Invalid refresh token")

\* C4: no store write lowers a user's stored tokenVersion.
C4_TokenVersionMonotonic ==
  [][\A i \in Ids :
       users[i].exists => users'[i].tokenVersion >= users[i].tokenVersion]_vars

\* C5: once every request has been answered, the stored tokenVersion is the
\* number of logout, changePassword and resetPassword requests that
\* completed successfully (it started at 0).
C5_EpochCountsBumps == AllIdle => users[1].tokenVersion = bumps

\* C6: counting consecutive failed logins from a record with loginAttempts 0
\* and no lock, the account has no lock after the first 4, and the 5th sets
\* lockUntil to the time of that failure plus the lock time, which locks it.
C6_FifthFailureLocks ==
  /\ [](streak \in 1..(maxAttempts - 1) =>
          users[1].lockUntil = Null /\ users[1].loginAttempts = streak)
  /\ [][(streak = maxAttempts - 1 /\ streak' = maxAttempts) =>
          /\ users'[1].lockUntil = now + (30 * 60 * 1000) \div MsPerTick
          /\ users'[1].lockUntil > now']_vars

\* Five consecutive failures have locked the account.
C6_Witness == streak = 5 /\ users[1].loginAttempts = 5 /\ Locked(1)

\* C7: when the logins of a burst, all with a wrong password, have all been
\* answered within the lock time, the account is locked.
C7_BurstEndsLocked ==
  (started = NumBurst /\ AllIdle /\ streak = NumBurst /\ now < lockTime) => Locked(1)

\* C8: every failed password check whose document does not show an expired
\* lock raises the stored loginAttempts by exactly one, whatever value the
\* document holds; so as long as no lock can have expired the stored counter
\* is the number of failed checks.
C8_IncrementNotLost ==
  /\ [][\A p \in Procs :
          (FailsPassword(p)
             /\ ~(req[p].user.lockUntil # Null /\ req[p].user.lockUntil < now)) =>
            users'[1].loginAttempts = users[1].loginAttempts + 1]_vars
  /\ [](now <= lockTime => users[1].loginAttempts = streak)

\* All logins of the burst loaded the user before any of them wrote: every
\* one of them was counted.
C8_Witness ==
  /\ started = NumBurst /\ AllIdle
  /\ users[1].loginAttempts = NumBurst
  /\ users[1].lockUntil = Null

\* C9: run one request at a time, a successful login leaves loginAttempts at
\* 0 and no lock, so the stored counter is the number of failures since then
\* and up to 4 further failures leave the account without a lock.
C9_SuccessResetsCounter ==
  /\ (AllIdle /\ last.op = "login" /\ last.res.status = 200) =>
       users[1].loginAttempts = 0 /\ users[1].lockUntil = Null
  /\ (AllIdle /\ users[1].lastLogin # Null /\ streak <= maxAttempts - 1) =>
       users[1].loginAttempts = streak /\ ~Locked(1)

\* A login with the correct password after one to four failures: the
\* document still shows the failures, the stored counter is back at 0.
C9_Witness ==
  \E p \in Procs :
    /\ req[p].pc = "login_save"
    /\ req[p].user.loginAttempts \in 1..(maxAttempts - 1)
    /\ users[1].loginAttempts = 0

\* C10: a login that finds the account locked is answered at once, before
\* any password comparison, with an error other than the invalid-credentials
\* error, without tokens, and without a write to the store.
C10_LockGate ==
  [][(started' = started + 1 /\ Locked(1)) =>
       /\ req' = req
       /\ last'.op = "login"
       /\ last'.res.status = 401
       /\ last'.res # AuthenticationError("Invalid credentials")
       /\ last'.res.tokens = {}
       /\ users' = users
       /\ issued' = issued]_vars

\* A login with the correct password was refused by the lock gate.
C10_Witness ==
  /\ Locked(1)
  /\ last.op = "login"
  /\ last.in.password = "p1"
  /\ last.res = AuthenticationError("Account is temporarily locked due to multiple failed login attempts")

\* ------------------------------------------------- password checks, in turn
\* Logins, password changes and account deletions for the registered user,
\* one request at a time.
NextPasswordSeq ==
  \/ \E p \in Procs, pw \in Passwords :
       started < MaxPasswordRequests /\ AllIdle /\ login(p, "e1", "", pw)
  \/ \E p \in Procs : loginCompare(p)
  \/ \E p \in Procs : loginSave(p)
  \/ \E p \in Procs, t \in issued, cur \in Passwords :
       started < MaxPasswordRequests /\ AllIdle /\ IsAccess(t) /\ change(p, t, cur, "p2")
  \/ \E p \in Procs : changeFind(p)
  \/ \E p \in Procs : changeSave(p)
  \/ \E p \in Procs, t \in issued, pw \in Passwords :
       started < MaxPasswordRequests /\ AllIdle /\ IsAccess(t) /\ deleteAccount(p, t, pw)
  \/ \E p \in Procs : deleteAccountFind(p)
  \/ \E p \in Procs : deleteAccountSave(p)
  \/ Tick

SpecPasswordSeq == Init /\ [][NextPasswordSeq]_vars

\* The step ends the password verification of slot p's request.
VerifiesPassword(p) ==
  /\ req[p].pc \in {"change_save", "delete_save"}
  /\ req'[p].pc = "idle"

\* C11: while the stored lockUntil of a user is in the future, a
\* ChangePassword or deleteAccount that verifies that user's password is
\* rejected and writes nothing, whether or not the password is correct (for
\* Login this is the lock gate of C10).
C11_LockCoversPasswordChecks ==
  [][\A p \in Procs :
       (VerifiesPassword(p) /\ Locked(req[p].user.id)) =>
         /\ last'.res.status >= 400
         /\ users' = users]_vars

\* C12: once lockUntil has elapsed, a Login with the correct password is not
\* stopped by the lock gate, and when it is answered it has succeeded with
\* tokens and the stored loginAttempts is 0 and lockUntil cleared.
C12_LazyUnlock ==
  /\ [][(started' = started + 1 /\ last'.in.password = "p1"
           /\ users[1].lockUntil # Null /\ users[1].lockUntil <= now) =>
          \E p \in Procs : req'[p].pc = "login_compare"]_vars
  /\ [][\A p \in Procs :
          (req[p].pc = "login_save" /\ req'[p].pc = "idle"
             /\ req[p].user.lockUntil # Null /\ req[p].user.lockUntil <= now) =>
            /\ last'.res.status = 200
            /\ \E t \in last'.res.tokens : IsAccess(t)
            /\ \E t \in last'.res.tokens : IsRefresh(t)
            /\ users'[1].loginAttempts = 0
            /\ users'[1].lockUntil = Null]_vars

\* The account was locked, the lock ran out, and a login with the correct
\* password was answered with tokens: the lock fields are cleared.
C12_Witness ==
  /\ AllIdle
  /\ last.op = "login" /\ last.res.status = 200
  /\ now >= lockTime
  /\ started > maxAttempts
  /\ users[1].loginAttempts = 0 /\ users[1].lockUntil = Null
  /\ users[1].lastLogin = now

\* The identifier of a login request resolves to no active user.
NoActiveUser(email, username) ==
  findOne(LAMBDA u : (u.email = email \/ u.username = username) /\ u.isActive) = 0

NextTokenSeq ==
  \/ \E p \in Procs :
       started < MaxSeqRequests /\ AllIdle /\ requestReset(p, "e1")
  \/ \E p \in Procs : requestResetSave(p)
  \/ \E p \in Procs, raw \in RawTokens, pw \in Passwords :
       started < MaxSeqRequests /\ AllIdle /\ reset(p, raw, pw)
  \/ \E p \in Procs : resetSave(p)
  \/ \E p \in Procs, raw \in RawTokens :
       started < MaxSeqRequests /\ AllIdle /\ verifyEmail(p, raw)
  \/ \E p \in Procs : verifyEmailSave(p)
  \/ Tick

SpecTokenSeq == Init /\ [][NextTokenSeq]_vars

\* The step starts a request `op` that presents the ephemeral token r.
ConsumptionStart(op, r) ==
  /\ started' = started + 1
  /\ \/ req' = req /\ last'.op = op /\ last'.in.raw = r
     \/ \E p \in Procs : req[p].pc = "idle" /\ req'[p].op = op /\ req'[p].in.raw = r

\* The step passes the lookup of a consumption of r.
PassesLookup(r) ==
  \E p \in Procs : /\ req[p].pc = "idle"
                   /\ req'[p].pc \in {"reset_save", "verify_save"}
                   /\ req'[p].in.raw = r

\* r is stored as a user's reset (verification) token, its expiry ahead.
LiveReset(r) ==
  \E i \in Ids : /\ users[i].exists
                 /\ users[i].passwordResetToken = r
                 /\ users[i].passwordResetExpires > now

LiveVerify(r) ==
  \E i \in Ids : /\ users[i].exists
                 /\ users[i].emailVerificationToken = r
                 /\ users[i].emailVerificationExpires > now

\* C14: with requests run one at a time, a consumption of a stored,
\* unexpired token that was never consumed passes the lookup and succeeds,
\* clearing the token; a consumption of a token that was consumed before is
\* answered 400 and writes nothing, so no token is consumed twice.
C14_SequentialSingleUse ==
  /\ [][\A r \in RawTokens :
          /\ (ConsumptionStart("reset", r) /\ LiveReset(r)) => PassesLookup(r)
          /\ (ConsumptionStart("verifyEmail", r) /\ LiveVerify(r)) => PassesLookup(r)
          /\ ((ConsumptionStart("reset", r) \/ ConsumptionStart("verifyEmail", r))
                /\ uses[r] >= 1) =>
               /\ req' = req
               /\ last'.res.status = 400
               /\ users' = users]_vars
  /\ [][\A p \in Procs :
          (req[p].pc \in {"reset_save", "verify_save"} /\ req'[p].pc = "idle") =>
            /\ last'.res.status = 200
            /\ \A i \in Ids :
                 users'[i].exists =>
                   /\ users'[i].passwordResetToken # req[p].in.raw
                   /\ users'[i].emailVerificationToken # req[p].in.raw]_vars
  /\ [](\A r \in RawTokens : uses[r] <= 1)

\* The reset token was consumed, and a second reset with it, at the time it
\* was generated and so before its expiry, was answered 400.
C14_Witness ==
  /\ now = 0
  /\ uses[2] = 1
  /\ last.op = "reset" /\ last.in.raw = 2
  /\ last.res.status = 400

\* C15: in every interleaving no ephemeral token is consumed with success
\* more than once.
C15_AtMostOneConsumption == \A r \in RawTokens : uses[r] <= 1

\* C16: a ResetPassword or VerifyEmail whose token matches no record, or
\* only a record whose expiry is not in the future, is answered at once with
\* status 400 and leaves every user record as it was.
C16_InvalidTokenChangesNothing ==
  [][\A r \in RawTokens :
       ((ConsumptionStart("reset", r) /\ ~LiveReset(r))
          \/ (ConsumptionStart("verifyEmail", r) /\ ~LiveVerify(r))) =>
         /\ req' = req
         /\ last'.res.status = 400
         /\ last'.res.tokens = {}
         /\ users' = users
         /\ issued' = issued]_vars

\* A reset with the stored reset token, after its expiry, was answered 400.
C16_Witness ==
  /\ last.op = "reset"
  /\ last.res = PlainError(400, "Invalid or expired reset token")
  /\ users[1].passwordResetToken = last.in.raw
  /\ users[1].passwordResetExpires <= now

\* ------------------------------------------------- a reset among other requests
\* The registered user has asked for a password reset at time 0 and holds the
\* token; one reset then runs among logouts, logins and refreshes.
InitResetPending ==
  /\ users = [i \in Ids |-> IF i = 1
                            THEN [RegisteredUser EXCEPT !.passwordResetToken = 2,
                                                        !.passwordResetExpires = resetExpiry]
                            ELSE NoUser]
  /\ now = 0
  /\ req = [p \in Procs |-> Idle]
  /\ issued = generateTokens(RegisteredUser, 0)
  /\ started = 1
  /\ minted = 2
  /\ last = [op |-> "requestReset", in |-> [NoInput EXCEPT !.email = "e1"],
             res |-> Success(200, "Password reset link sent to your email", {})]
  /\ streak = 0
  /\ bumps = 0
  /\ uses = [r \in RawTokens |-> 0]
  /\ linked = [i \in Ids |-> <<>>]
  /\ env = "production"
  /\ rejected = {}
  /\ rate = NoRate

NextResetRace ==
  \/ \E p \in Workers :
       /\ started <= MaxEpochRequests
       /\ \A q \in Procs : req[q].op # "reset"
       /\ uses[2] = 0
       /\ reset(p, 2, "p2")
  \/ \E p \in Workers : resetSave(p)
  \/ \E p \in Workers, t \in issued :
       started <= MaxEpochRequests /\ IsAccess(t) /\ logout(p, t)
  \/ \E p \in Workers : logoutFind(p)
  \/ \E p \in Workers : logoutSave(p)
  \/ \E p \in Workers, pw \in Passwords :
       started <= MaxEpochRequests /\ login(p, "e1", "", pw)
  \/ \E p \in Workers : loginCompare(p)
  \/ \E p \in Workers : loginSave(p)
  \/ \E p \in Workers, t \in issued :
       started <= MaxEpochRequests /\ IsRefresh(t) /\ refreshToken(p, t)
  \/ Tick

SpecResetRace == InitResetPending /\ [][NextResetRace]_vars

\* The step ends slot p's ResetPassword with success.
ResetSucceeds(p) ==
  /\ req[p].pc = "reset_save"
  /\ req'[p].pc = "idle"
  /\ last'.res.status = 200

\* C17: the step in which a ResetPassword succeeds stores the new hash,
\* clears the reset token and its expiry, and leaves no refresh token issued
\* before it acceptable to Refresh.
C17_ResetRevokesSessions ==
  [][\A p \in Procs :
       ResetSucceeds(p) =>
         LET id == req[p].user.id
         IN /\ users'[id].passwordHash = bcryptHash(req[p].in.newPassword)
            /\ users'[id].passwordResetToken = Null
            /\ users'[id].passwordResetExpires = Null
            /\ \A t \in issued :
                 (IsRefresh(t) /\ t.userId = id) => ~refreshAccepts(users'[id], t)]_vars

\* The step ends slot p's ChangePassword after its password comparison.
ChangeEnds(p) == req[p].pc = "change_save" /\ req'[p].pc = "idle"

\* C18: with requests run one at a time, a ChangePassword with a wrong
\* current password is answered 401 and writes nothing; with the correct one
\* it stores the hash of the new password and raises tokenVersion by 1, so
\* that no refresh token issued before is accepted and a different old
\* password no longer compares equal; and a login passes the password check
\* only with the password whose hash is stored.
C18_ChangePassword ==
  /\ [][\A p \in Procs :
          ChangeEnds(p) =>
            LET id == req[p].user.id
                old == req[p].in.password
            IN IF ~bcryptCompare(old, users[id].passwordHash)
               THEN /\ last'.res.status = 401
                    /\ users' = users
               ELSE /\ last'.res.status = 200
                    /\ users'[id].passwordHash = bcryptHash(req[p].in.newPassword)
                    /\ users'[id].tokenVersion = users[id].tokenVersion + 1
                    /\ \A t \in issued :
                         (IsRefresh(t) /\ t.userId = id) => ~refreshAccepts(users'[id], t)
                    /\ old # req[p].in.newPassword =>
                         ~bcryptCompare(old, users'[id].passwordHash)]_vars
  /\ [][\A p \in Procs :
          (req[p].pc = "login_compare" /\ req'[p].pc = "login_save") =>
            bcryptCompare(req[p].in.password, users[req[p].user.id].passwordHash)]_vars

\* The password was changed from p1 to p2, and a later login with p1 was
\* answered with the invalid-credentials error.
C18_Witness ==
  /\ AllIdle
  /\ bumps = 1
  /\ users[1].passwordHash = bcryptHash("p2")
  /\ users[1].tokenVersion = 1
  /\ last.op = "login" /\ last.in.password = "p1"
  /\ last.res = AuthenticationError("Invalid credentials")

\* C19: a Refresh whose token does not verify (signature, expiry, format,
\* issuer or audience) is answered with the 401 authentication error, as an
\* epoch mismatch is, and returns no tokens.
C19_RefreshFailsUnauthorized ==
  [][(AnsweredAtOnce("refresh")
        /\ last'.in.token # NoToken
        /\ ~verifyRefreshToken(last'.in.token, now)) =>
       /\ last'.res.status = 401
       /\ last'.res.code = "AUTHENTICATION_ERROR"
       /\ last'.res.tokens = {}]_vars

\* The input of the request the step starts.
StartedInput ==
  IF req' = req
  THEN last'.in
  ELSE req'[CHOOSE p \in Procs : req[p].pc = "idle" /\ req'[p].pc # "idle"].in

\* The input names user i: by the user id of its JWT, by its email, or by an
\* ephemeral token stored for i with its expiry ahead.
Names(in, i) ==
  /\ users[i].exists
  /\ \/ in.token # NoToken /\ in.token.userId = i
     \/ in.email # "" /\ in.email = users[i].email
     \/ in.raw # Null /\ in.raw = users[i].passwordResetToken
                      /\ users[i].passwordResetExpires > now
     \/ in.raw # Null /\ in.raw = users[i].emailVerificationToken
                      /\ users[i].emailVerificationExpires > now

\* C20: a request that names a user whose isActive is false is rejected at
\* once: no tokens are issued and no record is written.
C20_InactiveRejectedEverywhere ==
  [][(started' = started + 1
        /\ \E i \in Ids : Names(StartedInput, i) /\ ~users[i].isActive) =>
       /\ req' = req
       /\ last'.res.status >= 400
       /\ last'.res.tokens = {}
       /\ users' = users
       /\ issued' = issued]_vars

\* ------------------------------------------------------------ OAuth logins
\* Provider callbacks served one after another, over every provider,
\* external id, email and profile name.
NextOAuth ==
  \/ \E p \in Procs, provider \in Providers, x \in ExternalIds, e \in Emails,
        n \in ProfileNames :
       AllIdle /\ started < MaxOAuthRequests /\ oauthCallback(p, provider, x, e, n)
  \/ \E p \in Procs : oauthFindEmail(p)
  \/ \E p \in Procs : oauthLinkSave(p)
  \/ \E p \in Procs : oauthCreateSave(p)

SpecOAuth == Init /\ [][NextOAuth]_vars

\* The records with the given email, and those with the given provider and
\* external id, in the collection c.
WithEmail(c, email) == {i \in Ids : c[i].exists /\ c[i].email = email}

WithPair(c, provider, oauthId) ==
  {i \in Ids : c[i].exists /\ c[i].oauthProvider = provider /\ c[i].oauthId = oauthId}

\* The step in which the save of a linked document is answered.
LinkEnds(p) == req[p].pc = "oauth_link_save" /\ req'[p].pc = "idle"

\* The step in which the save of a new OAuth user is answered.
CreateEnds(p) == req[p].pc = "oauth_create_save" /\ req'[p].pc = "idle"

\* C21: an OAuth login whose (provider, external id) matches no record and
\* whose email is that of an existing record links that record: afterwards
\* the email has exactly one record, with the password hash it had and with
\* the provider and external id of the login, and it is the one record a
\* login with that provider and external id resolves to.
C21_OAuthLinking ==
  [][\A p \in Procs : LinkEnds(p) =>
       LET inp == req[p].in
           id == req[p].user.id
       IN /\ WithEmail(users', inp.email) = {id}
          /\ users'[id].passwordHash = users[id].passwordHash
          /\ users'[id].oauthProvider = inp.provider
          /\ users'[id].oauthId = inp.oauthId
          /\ WithPair(users', inp.provider, inp.oauthId) = {id}
          /\ last'.res = OAuthRedirect(generateTokens(users'[id], now))]_vars

\* The local account was linked by the first login, and the second login,
\* with the same provider and external id and an email of no record, was
\* answered with the tokens of that account.
C21_Witness ==
  /\ started = 2 /\ AllIdle
  /\ ~users[2].exists
  /\ Len(linked[1]) = 1
  /\ users[1].passwordHash = bcryptHash("p1")
  /\ last.op = "oauth" /\ last.in.email = "e2"
  /\ last.in.provider = users[1].oauthProvider
  /\ last.in.oauthId = users[1].oauthId
  /\ last.res = OAuthRedirect(generateTokens(users[1], now))

\* C22: a login whose (provider, external id) matches a record is answered
\* at once with the tokens of that record and writes nothing: every field of
\* every record is as it was.
C22_MatchedLoginWritesNothing ==
  [][(/\ started' = started + 1
      /\ StartedInput.provider # ""
      /\ WithPair(users, StartedInput.provider, StartedInput.oauthId) # {}) =>
       /\ users' = users
       /\ req' = req
       /\ \E i \in WithPair(users, StartedInput.provider, StartedInput.oauthId) :
            last'.res = OAuthRedirect(generateTokens(users[i], now))]_vars

\* The third login of a run, the second in a row that matches the linked
\* record by provider and external id: the record is as the link left it.
C22_Witness ==
  /\ started = 3 /\ AllIdle
  /\ ~users[2].exists
  /\ Len(linked[1]) = 1
  /\ last.op = "oauth" /\ last.in.email = "e2"
  /\ last.res.status = 302 /\ last.res.tokens # {}
  /\ users[1] = [RegisteredUser EXCEPT !.oauthProvider = last.in.provider,
                                       !.oauthId = last.in.oauthId,
                                       !.isVerified = TRUE]

\* C23: whatever the provider, a login that matches no record by (provider,
\* external id) or by email ends with exactly one new record for its email,
\* without a password hash, verified and with tokenVersion 0, also when the
\* name of the profile is the username of an existing user.
C23_OAuthCreation ==
  [][\A p \in Procs : CreateEnds(p) =>
       LET inp == req[p].in
       IN /\ WithEmail(users, inp.email) = {}
          /\ \E i \in Ids :
               /\ WithEmail(users', inp.email) = {i}
               /\ ~users[i].exists
               /\ users'[i].passwordHash = NoHash
               /\ users'[i].isVerified
               /\ users'[i].tokenVersion = 0
               /\ users'[i].oauthProvider = inp.provider
               /\ users'[i].oauthId = inp.oauthId
               /\ last'.res = OAuthRedirect(generateTokens(users'[i], now))]_vars

\* C30: a record carries one (provider, external id) pair, that of the most
\* recent login that linked it, and its email has no other record.
C30_LastLinkWins ==
  \A i \in Ids :
    (users[i].exists /\ linked[i] # <<>>) =>
      /\ users[i].oauthProvider = linked[i][Len(linked[i])].provider
      /\ users[i].oauthId = linked[i][Len(linked[i])].oauthId
      /\ WithEmail(users, users[i].email) = {i}

\* The account was linked by logins of two providers, one after the other.
C30_Witness ==
  /\ AllIdle
  /\ Len(linked[1]) >= 2
  /\ linked[1][1].provider # linked[1][2].provider
  /\ users[1].email = "e1"
  /\ users[1].passwordHash = bcryptHash("p1")

\* ------------------------------------------------------ racing registrations
\* Registrations of two usernames and two emails, two in flight at once, on
\* an empty collection.
Usernames == {"user1", "user2"}

NextRegister ==
  \/ \E p \in Workers, n \in Usernames, e \in Emails :
       started < MaxEpochRequests /\ register(p, n, e, "p1")
  \/ \E p \in Workers : registerSave(p)
  \/ Tick

SpecRegister == InitEmpty /\ [][NextRegister]_vars

\* The operation of the request the step starts.
StartedOp ==
  IF req' = req
  THEN last'.op
  ELSE req'[CHOOSE p \in Procs : req[p].pc = "idle" /\ req'[p].pc # "idle"].op

\* A record of the collection has the email or the username of the input.
Taken(inp) ==
  \E i \in Ids : users[i].exists
                 /\ (users[i].email = inp.email \/ users[i].username = inp.username)

\* The step in which the save of a registration is answered.
RegisterEnds(p) == req[p].pc = "register_save" /\ req'[p].pc = "idle"

\* C24: a Register whose email or username is that of an existing record,
\* when it starts or when its insert arrives, is answered with a Conflict,
\* gets no tokens and creates no record; no two records ever share an email
\* or a username.
C24_RegisterUnique ==
  [][/\ (started' = started + 1 /\ StartedOp = "register" /\ Taken(StartedInput)) =>
          /\ req' = req
          /\ last'.res.status = 409 /\ last'.res.code = "CONFLICT_ERROR"
          /\ last'.res.tokens = {}
          /\ users' = users
     /\ \A p \in Procs : (RegisterEnds(p) /\ Taken(req[p].in)) =>
          /\ last'.res.status = 409 /\ last'.res.code = "CONFLICT_ERROR"
          /\ last'.res.tokens = {}
          /\ users' = users
     /\ \A p \in Procs : (RegisterEnds(p) /\ ~Taken(req[p].in)) =>
          /\ last'.res.status = 201
          /\ Cardinality({i \in Ids : users'[i].exists})
               = Cardinality({i \in Ids : users[i].exists}) + 1
     /\ \A i, j \in Ids : (i # j /\ users'[i].exists /\ users'[j].exists) =>
          /\ users'[i].email # users'[j].email
          /\ users'[i].username # users'[j].username]_vars

\* Two registrations of one email passed the lookup together; the insert of
\* the second was refused and the email has one record.
C24_Witness ==
  /\ AllIdle /\ started = 2
  /\ last.op = "register"
  /\ last.res = ConflictError("already exists")
  /\ Cardinality({i \in Ids : users[i].exists}) = 1
  /\ \E i \in Ids : users[i].exists /\ users[i].email = last.in.email
                    /\ users[i].username # last.in.username

\* ------------------------------------------------------------ refresh tokens
\* The refresh token presented verifies and names an active user of the
\* epoch it embeds.
RefreshValid(t) ==
  /\ t # NoToken
  /\ verifyRefreshToken(t, now)
  /\ t.userId \in Ids
  /\ users[t.userId].exists
  /\ users[t.userId].isActive
  /\ users[t.userId].tokenVersion = t.tokenVersion

\* C25: Refresh writes nothing to any record, and a refresh token that
\* verifies, of an active user whose tokenVersion is the epoch it embeds, is
\* accepted however often it was presented before: the answer is a token
\* pair of the current epoch.
C25_RefreshNotRotated ==
  [][AnsweredAtOnce("refresh") =>
       LET t == last'.in.token
       IN /\ users' = users
          /\ RefreshValid(t) =>
               /\ last'.res.status = 200
               /\ last'.res.tokens = generateTokens(users[t.userId], now)
               /\ \A tok \in last'.res.tokens :
                    tok.tokenVersion = users[t.userId].tokenVersion]_vars

\* The refresh token of the registration was accepted at two different
\* times, and the record is as the registration left it.
C25_Witness ==
  /\ started = 2 /\ AllIdle
  /\ last.op = "refresh" /\ last.res.status = 200
  /\ last.in.token = generateRefreshToken(RegisteredUser, 0)
  /\ Cardinality({t \in issued : IsRefresh(t)}) = 3
  /\ users[1] = RegisteredUser

\* C26: a token signed as an access token is never accepted by Refresh, and
\* a token signed as a refresh token never passes authenticateToken.
C26_TokenClassesDoNotCross ==
  [][/\ \A t \in issued : /\ IsAccess(t) => ~verifyRefreshToken(t, now)
                          /\ IsRefresh(t) => ~verifyAccessToken(t, now)
     /\ (AnsweredAtOnce("refresh") /\ IsAccess(last'.in.token)) =>
          /\ last'.res.status # 200
          /\ last'.res.tokens = {}
          /\ issued' = issued
     /\ (started' = started + 1 /\ StartedOp # "refresh"
           /\ IsRefresh(StartedInput.token)) =>
          /\ req' = req
          /\ last'.res = PlainError(401, "Invalid access token")]_vars

\* An access token of the current epoch, unexpired, of an active user, was
\* presented to Refresh and answered with an error.
C26_Witness ==
  /\ last.op = "refresh"
  /\ IsAccess(last.in.token)
  /\ last.in.token.exp > now
  /\ users[1].isActive
  /\ users[1].tokenVersion = last.in.token.tokenVersion
  /\ last.res.status >= 400 /\ last.res.tokens = {}

\* --------------------------------------------------- refresh racing logout
\* One logout of the registered user among refreshes with the refresh
\* tokens issued so far.
NextLogoutRace ==
  \/ \E p \in Workers, t \in issued :
       /\ started < MaxEpochRequests
       /\ bumps = 0
       /\ \A q \in Procs : req[q].op # "logout"
       /\ IsAccess(t)
       /\ logout(p, t)
  \/ \E p \in Workers : logoutFind(p)
  \/ \E p \in Workers : logoutSave(p)
  \/ \E p \in Workers, t \in issued :
       started < MaxEpochRequests /\ IsRefresh(t) /\ refreshToken(p, t)
  \/ Tick

SpecLogoutRace == Init /\ [][NextLogoutRace]_vars

\* C28: a Refresh whose token verifies, racing the Logout of its user, is
\* decided by the tokenVersion its load observes: it succeeds exactly when
\* that value is the epoch of the token, the tokens it returns embed that
\* value, and once the Logout has written every Refresh is rejected.
C28_RefreshRacingLogout ==
  [][AnsweredAtOnce("refresh") =>
       LET t == last'.in.token
           id == t.userId
       IN (/\ t # NoToken /\ verifyRefreshToken(t, now)
           /\ id \in Ids /\ users[id].exists /\ users[id].isActive) =>
            /\ (last'.res.status = 200) <=> (users[id].tokenVersion = t.tokenVersion)
            /\ last'.res.status = 200 => last'.res.tokens # {}
            /\ last'.res.status # 200 => last'.res.tokens = {}
            /\ \A tok \in last'.res.tokens : tok.tokenVersion = users[id].tokenVersion
            /\ bumps >= 1 => last'.res = AuthenticationError("Invalid refresh token")]_vars

\* A refresh was accepted before the logout wrote, and a refresh with an
\* unexpired token was rejected after it.
C28_Witness ==
  /\ bumps = 1 /\ AllIdle
  /\ users[1].tokenVersion = 1
  /\ Cardinality({t \in issued : IsRefresh(t)}) >= 2
  /\ last.op = "refresh"
  /\ last.in.token.exp > now
  /\ last.res = AuthenticationError("Invalid refresh token")

\* ------------------------------------------------ logins with failing writes
\* Logins of the registered user served one after another, each write of
\* which the store may reject.
NextLoginFault ==
  \/ \E p \in Procs, pw \in Passwords :
       started < MaxEpochRequests /\ AllIdle /\ login(p, "e1", "", pw)
  \/ \E p \in Procs : loginCompare(p)
  \/ \E p \in Procs : loginSave(p)
  \/ \E p \in Procs : loginCompareFails(p)
  \/ \E p \in Procs : loginSaveFails(p)
  \/ Tick

SpecLoginFault == Init /\ [][NextLoginFault]_vars

\* The step in which the login of slot p is answered after its lookup.
LoginEnds(p) == req[p].op = "login" /\ req[p].pc # "idle" /\ req'[p].pc = "idle"

\* C27: a login ends in one of two ways: with tokens, the counter reset and
\* lastLogin written; or without tokens and with the record either as the
\* login found it or, after a failed password check, with the one counter
\* update applied.
C27_LoginAllOrNothing ==
  [][\A p \in Procs : LoginEnds(p) =>
       LET loaded == req[p].user
           id == loaded.id
           passes == comparePassword(loaded, req[p].in.password)
       IN \/ /\ last'.res.status = 200 /\ last'.res.tokens # {}
             /\ users'[id].lastLogin = now
             /\ users'[id].loginAttempts = 0
             /\ users'[id].lockUntil = Null
          \/ /\ last'.res.status >= 400 /\ last'.res.tokens = {}
             /\ \/ users'[id] = loaded
                \/ /\ ~passes
                   /\ users'[id] = updateOne(loaded, loaded,
                                             incrementLoginAttemptsUpdate(loaded, now))]_vars

\* ------------------------------------------------------------- soft delete
\* The collection after one registration, of a short or of a longer
\* username.
InitNamed ==
  /\ \E name \in {"user1", "username9"} :
       users = [i \in Ids |-> IF i = 1 THEN [RegisteredUser EXCEPT !.username = name]
                                        ELSE NoUser]
  /\ now = 0
  /\ req = [p \in Procs |-> Idle]
  /\ issued = generateTokens(RegisteredUser, 0)
  /\ started = 0
  /\ minted = 1
  /\ last = NoLast
  /\ streak = 0
  /\ bumps = 0
  /\ uses = [r \in RawTokens |-> 0]
  /\ linked = [i \in Ids |-> <<>>]
  /\ env = "production"
  /\ rejected = {}
  /\ rate = NoRate

\* Deletions, logins, refreshes and calls of a protected route, served one
\* after another.
NextDelete ==
  \/ \E p \in Procs, t \in issued, pw \in Passwords :
       started < MaxEpochRequests /\ AllIdle /\ IsAccess(t) /\ deleteAccount(p, t, pw)
  \/ \E p \in Procs : deleteAccountFind(p)
  \/ \E p \in Procs : deleteAccountSave(p)
  \/ \E p \in Procs, e \in {"e1", deletedName("e1")}, pw \in Passwords :
       started < MaxEpochRequests /\ AllIdle /\ login(p, e, "", pw)
  \/ \E p \in Procs : loginCompare(p)
  \/ \E p \in Procs : loginSave(p)
  \/ \E p \in Procs, t \in issued :
       started < MaxEpochRequests /\ AllIdle /\ IsRefresh(t) /\ refreshToken(p, t)
  \/ \E p \in Procs, t \in issued :
       started < MaxEpochRequests /\ AllIdle /\ IsAccess(t) /\ getCurrentUser(p, t)
  \/ \E p \in Procs : getCurrentUserFind(p)
  \/ Tick

SpecDelete == InitNamed /\ [][NextDelete]_vars

\* The step in which deleteAccount is answered after its password check.
DeleteEnds(p) == req[p].pc = "delete_save" /\ req'[p].pc = "idle"

\* C29: deleteAccount with a wrong password is answered 401 and leaves the
\* record as it was; with the correct password the record stays in the
\* collection, inactive and with email and username renamed.  No step
\* removes a record, and from then on a login that names no active user, a
\* refresh and a call through authenticateToken with a token of the
\* inactive user are rejected without tokens and without a write.
C29_SoftDelete ==
  [][/\ \A p \in Procs : DeleteEnds(p) =>
          LET u == req[p].user
          IN IF comparePassword(u, req[p].in.password)
             THEN /\ last'.res.status = 200
                  /\ users'[u.id].exists
                  /\ ~users'[u.id].isActive
                  /\ users'[u.id].email = deletedName(u.email)
                  /\ users'[u.id].username = deletedName(u.username)
             ELSE /\ last'.res.status = 401
                  /\ users' = users
     /\ \A i \in Ids : users[i].exists => users'[i].exists
     /\ (/\ started' = started + 1
         /\ \/ /\ StartedOp = "login"
               /\ ~\E i \in Ids : /\ users[i].exists /\ users[i].isActive
                                  /\ \/ users[i].email = StartedInput.email
                                     \/ users[i].username = StartedInput.username
            \/ /\ StartedOp # "login"
               /\ \E i \in Ids : /\ users[i].exists /\ ~users[i].isActive
                                 /\ StartedInput.token.userId = i) =>
          /\ req' = req
          /\ last'.res.status >= 400
          /\ last'.res.tokens = {}
          /\ users' = users]_vars

\* ------------------------------------------------------- globalErrorHandler
\* config.app.env: process.env.NODE_ENV, 'development' when it is not set.
Envs == {"development", "production", "test"}

\* The error objects that reach the handler: errors thrown by libraries and
\* by the runtime (no isOperational), and AppError instances, whose name is
\* 'Error' as well.
AppStatuses == {<<400, "VALIDATION_ERROR">>, <<401, "AUTHENTICATION_ERROR">>,
                <<409, "CONFLICT_ERROR">>, <<429, "VALIDATION_ERROR">>}

ThrownErrors ==
  [name : {"Error", "TypeError", "ValidationError", "CastError", "JsonWebTokenError",
           "TokenExpiredError", "MulterError"},
   code : {Null, 11000},
   isOperational : {FALSE},
   statusCode : {Null},
   errorCode : {""},
   details : {FALSE},
   message : {"connect ECONNREFUSED 10.0.0.5:27017", "Invalid refresh token"},
   stack : {"at origin"}]
  \cup
  {[name |-> "Error", code |-> Null, isOperational |-> TRUE, statusCode |-> s[1],
    errorCode |-> s[2], details |-> FALSE, message |-> m, stack |-> "at handler"] :
     s \in AppStatuses, m \in {"Invalid credentials", "Validation failed"}}

\* new AppError(message, statusCode, errorCode, details), its stack captured
\* where it is constructed.
AppError(message, statusCode, errorCode, details) ==
  [name |-> "Error", code |-> Null, isOperational |-> TRUE, statusCode |-> statusCode,
   errorCode |-> errorCode, details |-> details, message |-> message,
   stack |-> "at globalErrorHandler"]

\* formatErrorResponse, with the status globalErrorHandler sends it under.
formatErrorResponse(error, e) ==
  [status |-> IF error.statusCode = Null THEN 500 ELSE error.statusCode,
   code |-> IF error.errorCode = "" THEN "INTERNAL_ERROR" ELSE error.errorCode,
   message |-> error.message,
   tokens |-> {},
   details |-> error.details,
   stack |-> IF e = "development" /\ error.stack # "" THEN error.stack ELSE ""]

\* globalErrorHandler: known errors are converted, an error that is not
\* operational is wrapped in an AppError of status 500.
globalErrorHandler(error, e) ==
  LET appError ==
        IF error.name = "ValidationError"
        THEN AppError("Validation failed", 400, "VALIDATION_ERROR", TRUE)
        ELSE IF error.name = "CastError"
        THEN AppError("Invalid path", 400, "VALIDATION_ERROR", FALSE)
        ELSE IF error.code = 11000
        THEN AppError("already exists", 409, "CONFLICT_ERROR", FALSE)
        ELSE IF error.name = "JsonWebTokenError"
        THEN AppError("Invalid token", 401, "AUTHENTICATION_ERROR", FALSE)
        ELSE IF error.name = "TokenExpiredError"
        THEN AppError("Token expired", 401, "AUTHENTICATION_ERROR", FALSE)
        ELSE IF error.name = "MulterError"
        THEN AppError("File upload error", 400, "VALIDATION_ERROR", FALSE)
        ELSE IF ~error.isOperational
        THEN AppError(IF e = "development" THEN error.message ELSE "Internal server error",
                      500, "INTERNAL_ERROR", FALSE)
        ELSE error
  IN formatErrorResponse(appError, e)

\* A request whose handler or middleware throws: the error is passed to
\* globalErrorHandler, which answers.
throws(error) ==
  /\ AllIdle
  /\ started' = started + 1
  /\ last' = [op |-> "error", in |-> NoInput, res |-> globalErrorHandler(error, env),
              error |-> error]
  /\ UNCHANGED <<users, now, req, issued, minted, streak, bumps, uses, linked, env,
                 rejected, rate>>

\* The service started under any environment.
InitErrors ==
  /\ users = [i \in Ids |-> IF i = 1 THEN RegisteredUser ELSE NoUser]
  /\ now = 0
  /\ req = [p \in Procs |-> Idle]
  /\ issued = generateTokens(RegisteredUser, 0)
  /\ started = 0
  /\ minted = 1
  /\ last = NoLast
  /\ streak = 0
  /\ bumps = 0
  /\ uses = [r \in RawTokens |-> 0]
  /\ linked = [i \in Ids |-> <<>>]
  /\ env \in Envs
  /\ rejected = {}
  /\ rate = NoRate

NextErrors == \E error \in ThrownErrors : started < MaxRequests /\ throws(error)

SpecErrors == InitErrors /\ [][NextErrors]_vars

\* The error is none the handler knows: not operational, not a duplicate key
\* error, and of no name it converts.
Unexpected(error) ==
  /\ ~error.isOperational
  /\ error.code # 11000
  /\ error.name \notin {"ValidationError", "CastError", "JsonWebTokenError",
                        "TokenExpiredError", "MulterError"}

\* C31: an unexpected error is answered with status 500 and code
\* INTERNAL_ERROR, and the response carries neither the message of the error
\* nor a stack.
C31_OpaqueInternalError ==
  (last.op = "error" /\ Unexpected(last.error)) =>
    /\ last.res.status = 500
    /\ last.res.code = "INTERNAL_ERROR"
    /\ last.res.message # last.error.message
    /\ last.res.stack = ""

\* ------------------------------------------------------ after a lock expired
\* The registered user after five failed logins at time 0, once the lock
\* they set has run out.
InitExpiredLock ==
  /\ users = [i \in Ids |-> IF i = 1
                            THEN [RegisteredUser EXCEPT !.loginAttempts = maxAttempts,
                                                        !.lockUntil = lockTime]
                            ELSE NoUser]
  /\ now = lockTime + 1
  /\ req = [p \in Procs |-> Idle]
  /\ issued = generateTokens(RegisteredUser, 0)
  /\ started = 0
  /\ minted = 1
  /\ last = NoLast
  /\ streak = 0
  /\ bumps = 0
  /\ uses = [r \in RawTokens |-> 0]
  /\ linked = [i \in Ids |-> <<>>]
  /\ env = "production"
  /\ rejected = {}
  /\ rate = NoRate

\* Logins of that user served one after another.
NextRelock ==
  \/ \E p \in Procs, pw \in Passwords :
       started < MaxSeqRequests /\ AllIdle /\ login(p, "e1", "", pw)
  \/ \E p \in Procs : loginCompare(p)
  \/ \E p \in Procs : loginSave(p)

SpecRelock == InitExpiredLock /\ [][NextRelock]_vars

\* C32: after the lock has expired every failed login counts, the first one
\* included: after k < 5 consecutive failures the counter is k, and the 5th
\* locks the account again.
C32_RelockAfterExpiry ==
  /\ (streak >= 1 /\ streak < maxAttempts) => users[1].loginAttempts = streak
  /\ streak = maxAttempts => Locked(1)

\* --------------------------------------------------- revocation under races
\* Logouts, logins with the password and refreshes of the registered user,
\* NumWorkers of them in flight at once.
NextRevocation ==
  \/ \E p \in Workers, t \in issued :
       started < MaxRevocationRequests /\ IsAccess(t) /\ logout(p, t)
  \/ \E p \in Workers : logoutFind(p)
  \/ \E p \in Workers : logoutSave(p)
  \/ \E p \in Workers :
       started < MaxRevocationRequests /\ login(p, "e1", "", "p1")
  \/ \E p \in Workers : loginCompare(p)
  \/ \E p \in Workers : loginSave(p)
  \/ \E p \in Workers, t \in issued :
       started < MaxRevocationRequests /\ IsRefresh(t) /\ refreshToken(p, t)

SpecRevocation == Init /\ [][NextRevocation]_vars

\* C33: a refresh token that Refresh has once rejected for its epoch is
\* never accepted by a later Refresh.
C33_RevocationPermanent ==
  [][(AnsweredAtOnce("refresh") /\ last'.in.token \in rejected) =>
       /\ last'.res.status # 200
       /\ last'.res.tokens = {}]_vars

\* ------------------------------------------- a locking failure and a success
\* The registered user after four failed logins at time 0.
InitFourFailures ==
  /\ users = [i \in Ids |-> IF i = 1
                            THEN [RegisteredUser EXCEPT !.loginAttempts = maxAttempts - 1]
                            ELSE NoUser]
  /\ now = 0
  /\ req = [p \in Procs |-> Idle]
  /\ issued = generateTokens(RegisteredUser, 0)
  /\ started = 0
  /\ minted = 1
  /\ last = NoLast
  /\ streak = maxAttempts - 1
  /\ bumps = 0
  /\ uses = [r \in RawTokens |-> 0]
  /\ linked = [i \in Ids |-> <<>>]
  /\ env = "production"
  /\ rejected = {}
  /\ rate = NoRate

\* Logins of that user with either password, NumWorkers in flight at once.
NextLockRace ==
  \/ \E p \in Workers, pw \in Passwords :
       started < MaxEpochRequests /\ login(p, "e1", "", pw)
  \/ \E p \in Workers : loginCompare(p)
  \/ \E p \in Workers : loginSave(p)
  \/ Tick

SpecLockRace == InitFourFailures /\ [][NextLockRace]_vars

\* C34: a record whose lockUntil is set has a loginAttempts of at least 5.
C34_LockImpliesCount ==
  \A i \in Ids :
    (users[i].exists /\ users[i].lockUntil # Null) => users[i].loginAttempts >= maxAttempts

\* ------------------------------------------- login racing a password change
\* Logins with either password, changes of the password from p1 to p2 and
\* refreshes of the registered user, NumWorkers of them in flight at once.
OldPassword == "p1"

NewPassword == "p2"

NextChangeRace ==
  \/ \E p \in Workers, pw \in Passwords :
       started < MaxEpochRequests /\ login(p, "e1", "", pw)
  \/ \E p \in Workers : loginCompare(p)
  \/ \E p \in Workers : loginSave(p)
  \/ \E p \in Workers, t \in issued :
       started < MaxEpochRequests /\ IsAccess(t) /\ change(p, t, OldPassword, NewPassword)
  \/ \E p \in Workers : changeFind(p)
  \/ \E p \in Workers : changeSave(p)
  \/ \E p \in Workers, t \in issued :
       started < MaxEpochRequests /\ IsRefresh(t) /\ refreshToken(p, t)
  \/ Tick

SpecChangeRace == Init /\ [][NextChangeRace]_vars

\* C35: a login that verified the old password returns tokens of the epoch
\* before the change, whenever it loaded and whenever it returns; and once a
\* change has completed, Refresh rejects every refresh token of that epoch.
C35_OldPasswordTokensDie ==
  [][/\ \A p \in Workers :
          (LoginEnds(p) /\ req[p].in.password = OldPassword) =>
             \A t \in last'.res.tokens : t.tokenVersion = 0
     /\ (AnsweredAtOnce("refresh") /\ bumps >= 1 /\ last'.in.token.tokenVersion = 0) =>
             (last'.res.status # 200 /\ last'.res.tokens = {})]_vars

\* A login at time 1 verified the old password, the change completed, and
\* the refresh token that login returned was rejected.
C35_Witness ==
  /\ bumps >= 1
  /\ users[1].lastLogin = 1
  /\ users[1].passwordHash = bcryptHash(NewPassword)
  /\ last.op = "refresh"
  /\ last.res.status = 401
  /\ last.in.token.tokenVersion = 0
  /\ last.in.token.exp = 1 + RefreshTTL

\* ------------------------------------------------------------ the login gate
\* The collection holds the registered user after four failed logins and an
\* account created by an OAuth callback, which has no password hash.
OAuthOnlyUser ==
  [NewUser(2, profileUsername("google", "ann-lee", 0), "e2", NoHash) EXCEPT
     !.oauthProvider = "google",
     !.oauthId = 1,
     !.isVerified = TRUE]

InitLoginGate ==
  /\ users = [i \in Ids |-> IF i = 1
                             THEN [RegisteredUser EXCEPT !.loginAttempts = maxAttempts - 1]
                             ELSE IF i = 2 THEN OAuthOnlyUser ELSE NoUser]
  /\ now = 0
  /\ req = [p \in Procs |-> Idle]
  /\ issued = generateTokens(RegisteredUser, 0) \cup generateTokens(OAuthOnlyUser, 0)
  /\ started = 0
  /\ minted = 1
  /\ last = NoLast
  /\ streak = maxAttempts - 1
  /\ bumps = 0
  /\ uses = [r \in RawTokens |-> 0]
  /\ linked = [i \in Ids |-> <<>>]
  /\ env = "production"
  /\ rejected = {}
  /\ rate = NoRate

\* The identifiers a client tries: both accounts, an address nobody has, and
\* the address a deactivated account is left with.
LoginEmails == {"e1", "e2", "e3", deletedName("e1")}

\* Logins and the deactivation of the registered user, NumWorkers of them in
\* flight at once.
NextLoginGate ==
  \/ \E p \in Workers, email \in LoginEmails, pw \in Passwords :
       started < MaxEpochRequests /\ login(p, email, "", pw)
  \/ \E p \in Workers : loginCompare(p)
  \/ \E p \in Workers : loginSave(p)
  \/ \E p \in Workers, t \in issued :
       started < MaxEpochRequests /\ IsAccess(t) /\ t.userId = 1
       /\ deleteAccount(p, t, "p1")
  \/ \E p \in Workers : deleteAccountFind(p)
  \/ \E p \in Workers : deleteAccountSave(p)
  \/ Tick

SpecLoginGate == InitLoginGate /\ [][NextLoginGate]_vars

\* The step starts a login in slot p that passes the lookup and the lock gate.
LoginLoads(p) == req[p].pc = "idle" /\ req'[p].pc = "login_compare"

\* No stored record changes its epoch or its password hash in the step.
CredentialsKept ==
  \A i \in Ids :
    users[i].exists =>
      /\ users'[i].tokenVersion = users[i].tokenVersion
      /\ users'[i].passwordHash = users[i].passwordHash

\* C36: a login carries a document past the gate only if the stored record
\* is active and not locked at that instant, reaches its save only if the
\* candidate matches the hash of that document, and returns tokens only from
\* its save; every login answered without success returns no tokens and
\* leaves tokenVersion and passwordHash of every record unchanged.
C36_LoginGate ==
  [][/\ \A p \in Workers :
          /\ LoginLoads(p) =>
                /\ req'[p].user.isActive
                /\ req'[p].user.lockUntil = Null \/ req'[p].user.lockUntil <= now
                /\ \E i \in Ids : users[i].exists /\ req'[p].user = users[i]
          /\ (req[p].op = "login" /\ req'[p].pc = "login_save" /\ req[p].pc # "login_save") =>
                /\ req[p].pc = "login_compare"
                /\ req'[p].user = req[p].user
                /\ req[p].user.passwordHash = bcryptHash(req[p].in.password)
          /\ (LoginEnds(p) /\ last'.res.tokens # {}) =>
                /\ req[p].pc = "login_save"
                /\ last'.res.status = 200
          /\ (LoginEnds(p) /\ last'.res.status # 200) =>
                /\ last'.res.tokens = {}
                /\ CredentialsKept
     /\ AnsweredAtOnce("login") =>
          /\ last'.res.status = 401
          /\ last'.res.tokens = {}
          /\ CredentialsKept]_vars

\* The login to the OAuth-only account was answered 401 without tokens and
\* counted as a failed attempt; the record has no hash and its epoch is the
\* initial one.
C36_Witness ==
  /\ last.op = "login"
  /\ last.in.email = "e2"
  /\ last.res.status = 401
  /\ last.res.tokens = {}
  /\ users[2].passwordHash = NoHash
  /\ users[2].loginAttempts >= 1
  /\ users[2].tokenVersion = 0

\* ------------------------------------------------- one reset token per user
\* The registered user after the verification of the email address: no raw
\* token is outstanding.
VerifiedUser ==
  [RegisteredUser EXCEPT !.isVerified = TRUE,
                         !.emailVerificationToken = Null,
                         !.emailVerificationExpires = Null]

InitVerified ==
  /\ users = [i \in Ids |-> IF i = 1 THEN VerifiedUser ELSE NoUser]
  /\ now = 0
  /\ req = [p \in Procs |-> Idle]
  /\ issued = generateTokens(RegisteredUser, 0)
  /\ started = 0
  /\ minted = 0
  /\ last = NoLast
  /\ streak = 0
  /\ bumps = 0
  /\ uses = [r \in RawTokens |-> 0]
  /\ linked = [i \in Ids |-> <<>>]
  /\ env = "production"
  /\ rejected = {}
  /\ rate = NoRate

\* Reset requests and resets of the registered user, one request at a time.
NextResetSeq ==
  \/ \E p \in Procs :
       started < MaxPasswordRequests /\ AllIdle /\ requestReset(p, "e1")
  \/ \E p \in Procs : requestResetSave(p)
  \/ \E p \in Procs, raw \in RawTokens, pw \in Passwords :
       started < MaxPasswordRequests /\ AllIdle /\ reset(p, raw, pw)
  \/ \E p \in Procs : resetSave(p)
  \/ Tick

SpecResetSeq == InitVerified /\ [][NextResetSeq]_vars

\* The step starts a reset in slot p whose lookup found a record.
ResetLoads(p) == req[p].pc = "idle" /\ req'[p].pc = "reset_save"

\* The step in which the reset request of slot p saves and is answered.
RequestResetEnds(p) == req[p].pc = "request_save" /\ req'[p].pc = "idle"

\* C37: the record holds one reset token: a completed reset request replaces
\* the stored token by the newly issued one, and the lookup of a reset finds
\* a record only by the token it stores now, so a token issued earlier is
\* answered 400 from the overwrite on, whatever its expiry.
C37_OneResetToken ==
  [][/\ \A p \in Procs :
          /\ RequestResetEnds(p) =>
                /\ users'[1].passwordResetToken = minted
                /\ users'[1].passwordResetToken # users[1].passwordResetToken
          /\ ResetLoads(p) =>
                /\ req'[p].in.raw = users[1].passwordResetToken
                /\ users[1].passwordResetExpires > now
     /\ (AnsweredAtOnce("reset") /\ last'.in.raw # users[1].passwordResetToken) =>
          /\ last'.res.status = 400
          /\ users' = users]_vars

\* The first of two issued tokens was presented at time 0, before its
\* expiry, and answered 400; the record holds the second.
C37_Witness ==
  /\ last.op = "reset"
  /\ last.in.raw = 1
  /\ last.res.status = 400
  /\ minted = 2
  /\ users[1].passwordResetToken = 2
  /\ now < resetExpiry

\* ------------------------------------------- password writes under a lock
\* The registered user after five failed logins and a reset request, all at
\* time 0: locked until lockTime, with reset token 2 pending.
InitLockedPending ==
  /\ users = [i \in Ids |-> IF i = 1
                             THEN [RegisteredUser EXCEPT !.loginAttempts = maxAttempts,
                                                         !.lockUntil = lockTime,
                                                         !.passwordResetToken = 2,
                                                         !.passwordResetExpires = resetExpiry]
                             ELSE NoUser]
  /\ now = 0
  /\ req = [p \in Procs |-> Idle]
  /\ issued = generateTokens(RegisteredUser, 0)
  /\ started = 0
  /\ minted = 2
  /\ last = NoLast
  /\ streak = maxAttempts
  /\ bumps = 0
  /\ uses = [r \in RawTokens |-> 0]
  /\ linked = [i \in Ids |-> <<>>]
  /\ env = "production"
  /\ rejected = {}
  /\ rate = NoRate

\* Resets, password changes and logins of the locked user, one request at a
\* time.
NextLockedWrites ==
  \/ \E p \in Procs, raw \in RawTokens :
       started < MaxPasswordRequests /\ AllIdle /\ reset(p, raw, "p2")
  \/ \E p \in Procs : resetSave(p)
  \/ \E p \in Procs, t \in issued, cur \in Passwords :
       started < MaxPasswordRequests /\ AllIdle /\ IsAccess(t) /\ change(p, t, cur, "p2")
  \/ \E p \in Procs : changeFind(p)
  \/ \E p \in Procs : changeSave(p)
  \/ \E p \in Procs, pw \in Passwords :
       started < MaxPasswordRequests /\ AllIdle /\ login(p, "e1", "", pw)
  \/ \E p \in Procs : loginCompare(p)
  \/ \E p \in Procs : loginSave(p)
  \/ Tick

SpecLockedWrites == InitLockedPending /\ [][NextLockedWrites]_vars

\* The step in which the reset or the password change of slot p is answered
\* after its lookup.
PasswordWriteEnds(p) ==
  req[p].pc \in {"reset_save", "change_save"} /\ req'[p].pc = "idle"

LockedMessage == "Account is temporarily locked due to multiple failed login attempts"

\* C38: the step that ends a reset or a password change leaves loginAttempts
\* and lockUntil of the record as they were, and while the record is Locked a
\* login is answered 401 with the lock message and no tokens, whatever the
\* password.
C38_PasswordWritesKeepLock ==
  [][/\ \A p \in Procs :
          /\ PasswordWriteEnds(p) =>
                /\ users'[1].loginAttempts = users[1].loginAttempts
                /\ users'[1].lockUntil = users[1].lockUntil
          /\ LoginLoads(p) => ~Locked(1)
     /\ (AnsweredAtOnce("login") /\ Locked(1)) =>
          /\ last'.res.status = 401
          /\ last'.res.message = LockedMessage
          /\ last'.res.tokens = {}]_vars

\* The reset with token 2 succeeded on the locked account, and a login with
\* the new password was then answered with the lock message.
C38_Witness ==
  /\ uses[2] = 1
  /\ users[1].passwordHash = bcryptHash("p2")
  /\ Locked(1)
  /\ users[1].loginAttempts = maxAttempts
  /\ last.op = "login"
  /\ last.in.password = "p2"
  /\ last.res.status = 401
  /\ last.res.message = LockedMessage

\* ------------------------------------------------- OAuth logins under a lock
\* OAuth callbacks and password logins for the locked user, one request at a
\* time.
NextLockedOAuth ==
  \/ \E p \in Procs, provider \in {"google", "github"}, e \in Emails :
       AllIdle /\ started < MaxOAuthRequests /\ oauthCallback(p, provider, 1, e, "ann-lee")
  \/ \E p \in Procs : oauthFindEmail(p)
  \/ \E p \in Procs : oauthLinkSave(p)
  \/ \E p \in Procs : oauthCreateSave(p)
  \/ \E p \in Procs :
       AllIdle /\ started < MaxOAuthRequests /\ login(p, "e1", "", "p1")
  \/ \E p \in Procs : loginCompare(p)
  \/ \E p \in Procs : loginSave(p)
  \/ Tick

SpecLockedOAuth == InitLockedPending /\ [][NextLockedOAuth]_vars

\* Record i has its lockout fields and its epoch unchanged in the step.
LockoutKept(i) ==
  /\ users'[i].loginAttempts = users[i].loginAttempts
  /\ users'[i].lockUntil = users[i].lockUntil
  /\ users'[i].tokenVersion = users[i].tokenVersion

\* The response of the step redirects with tokens of record i at its epoch.
RedirectsFor(i) ==
  /\ last'.res.status = 302
  /\ last'.res.tokens # {}
  /\ \A t \in last'.res.tokens : t.userId = i /\ t.tokenVersion = users[i].tokenVersion

\* C39: a completed OAuth login that resolves to a Locked record, by its
\* (provider, external id) or by its email, redirects with tokens for that
\* record and leaves its loginAttempts, lockUntil and tokenVersion unchanged.
C39_OAuthIgnoresLock ==
  [][/\ AnsweredAtOnce("oauth") =>
          \A i \in Ids :
            (users[i].exists /\ Locked(i) /\ i = findOne(LAMBDA u : u.oauthId = last'.in.oauthId
                                                 /\ u.oauthProvider = last'.in.provider)) =>
               RedirectsFor(i) /\ LockoutKept(i)
     /\ \A p \in Procs :
          LinkEnds(p) =>
            \A i \in Ids :
              (users[i].exists /\ Locked(i) /\ i = req[p].user.id) =>
                 RedirectsFor(i) /\ LockoutKept(i)]_vars

\* The locked user was linked to an external identity and then logged in
\* through it: the callback redirected with tokens while the record is still
\* locked, with the counter, the lock and the epoch it had.
C39_Witness ==
  /\ Locked(1)
  /\ users[1].loginAttempts = maxAttempts
  /\ users[1].lockUntil = lockTime
  /\ users[1].tokenVersion = 0
  /\ Len(linked[1]) = 1
  /\ started >= 2
  /\ AllIdle
  /\ last.op = "oauth"
  /\ last.in.provider = users[1].oauthProvider
  /\ last.in.oauthId = users[1].oauthId
  /\ last.in.email = "e2"
  /\ last.res.status = 302
  /\ \E t \in last.res.tokens : t.userId = 1

\* ------------------------------------------------------- rateLimitValidation
\* new ValidationError('Too many requests, ...') with statusCode set to 429,
\* passed to next().
TooManyRequests ==
  [AppError("Too many requests, please try again later", 400, "VALIDATION_ERROR", FALSE)
     EXCEPT !.statusCode = 429, !.stack = "at rateLimitValidation"]

\* The timestamps of `times` the filter keeps: time > windowStart.
Recent(times, t) == SelectSeq(times, LAMBDA time : time > t - RateWindow)

\* Variant: the request is rejected only when more than max are recorded.
rateLimitValidation_OffByOne(key) ==
  /\ AllIdle
  /\ LET userRequests == Recent(rate.requests[key], now)
     IN IF Len(userRequests) > RateMax
        THEN /\ rate' = [rate EXCEPT !.requests[key] = userRequests]
             /\ last' = [op |-> "rateLimit", in |-> NoInput, key |-> key,
                         res |-> globalErrorHandler(TooManyRequests, env)]
        ELSE /\ rate' = [rate EXCEPT !.requests[key] = Append(userRequests, now),
                                     !.passed[key] = Append(@, now)]
             /\ last' = [op |-> "rateLimit", in |-> NoInput, key |-> key,
                         res |-> NoResponse]
  /\ started' = started + 1
  /\ UNCHANGED <<users, now, req, issued, minted, streak, bumps, uses, linked, env, rejected>>

\* The middleware for one request of client `key`: the entries of the key
\* are filtered, a full window answers 429 through next(error), otherwise
\* the time is pushed and next() hands the request on.  rate.passed is the
\* history of the requests handed on.
rateLimitValidation(key) ==
  /\ AllIdle
  /\ LET userRequests == Recent(rate.requests[key], now)
     IN IF Len(userRequests) >= RateMax
        THEN /\ rate' = [rate EXCEPT !.requests[key] = userRequests]
             /\ last' = [op |-> "rateLimit", in |-> NoInput, key |-> key,
                         res |-> globalErrorHandler(TooManyRequests, env)]
        ELSE /\ rate' = [rate EXCEPT !.requests[key] = Append(userRequests, now),
                                     !.passed[key] = Append(@, now)]
             /\ last' = [op |-> "rateLimit", in |-> NoInput, key |-> key,
                         res |-> NoResponse]
  /\ started' = started + 1
  /\ UNCHANGED <<users, now, req, issued, minted, streak, bumps, uses, linked, env, rejected>>

NextRateLimit ==
  \/ \E key \in RateKeys : started < MaxRateRequests /\ rateLimitValidation(key)
  \/ Tick

SpecRateLimit == Init /\ [][NextRateLimit]_vars

\* The requests of client `key` handed on with a timestamp inside the window
\* that ends at time t.
AcceptedInWindow(key, t) ==
  Cardinality({j \in DOMAIN rate.passed[key] : rate.passed[key][j] > t - RateWindow})

\* The step is a request of client `key` reaching the limiter.
Limits(key) == started' = started + 1 /\ last'.op = "rateLimit" /\ last'.key = key

\* C40: for every client and at every time at most max handed-on requests
\* have their timestamp inside the last windowMs; a request that finds max of
\* them there is answered 429, and it is recorded nowhere: neither the
\* history nor the stored entries of the key gain a timestamp.
C40_RateLimitWindow ==
  [][\A key \in RateKeys :
       /\ AcceptedInWindow(key, now) <= RateMax
       /\ Cardinality({j \in DOMAIN rate'.passed[key] :
                         rate'.passed[key][j] > now' - RateWindow}) <= RateMax
       /\ (Limits(key) /\ AcceptedInWindow(key, now) >= RateMax) =>
             /\ last'.res.status = 429
             /\ rate'.passed = rate.passed
             /\ rate'.requests[key] = Recent(rate.requests[key], now)
             /\ Len(rate'.requests[key]) = RateMax
       /\ (Limits(key) /\ AcceptedInWindow(key, now) < RateMax) =>
             /\ last'.res = NoResponse
             /\ rate'.passed[key] = Append(rate.passed[key], now)]_vars

\* A client had a request handed on at time 0, then max of them at a later
\* time when the first had left the window, and its next request was
\* answered 429.
C40_Witness ==
  /\ last.op = "rateLimit"
  /\ last.res.status = 429
  /\ last.res.code = "VALIDATION_ERROR"
  /\ Len(rate.passed[last.key]) = RateMax + 1
  /\ rate.passed[last.key][1] = 0
  /\ AcceptedInWindow(last.key, now) = RateMax
  /\ Len(rate.requests[last.key]) = RateMax

====
